---- MODULE Spec2Model ----
(***************************************************************************)
(* Downlink playback engine and session state machine of the M5Stack Core2 *)
(* voice assistant (WebSocket variant).                                    *)
(*                                                                         *)
(* Two execution contexts are modelled:                                    *)
(*   - the control loop (Arduino loop(): webSocket.loop() and its event    *)
(*     callback, completion check, touch, timeouts, microphone read),      *)
(*     whose position is pcL;                                              *)
(*   - the playback task (audio_playback_task), whose position is pcT.     *)
(* The two interleave freely.  A handler is split into several steps where *)
(* it yields (vTaskDelay, a blocking receive) and between its test of a    *)
(* variable the other context writes and the write that depends on the     *)
(* test; statements that touch only one context's own data are part of the *)
(* step that precedes them.  Waits are untimed: a wait with a timeout ends *)
(* when its condition holds or, at any moment before, by expiry.           *)
(* The speaker (M5.Speaker) is an environment with a two-slot channel.     *)
(***************************************************************************)
EXTENDS Integers, Sequences, FiniteSets, TLC

(* ------------------------------ bounds --------------------------------- *)
\* binary frames the server sends in one run of the playback specification
MaxChunks == 3
\* audio_start messages that find no playback task, in one run of the
\* playback specification
MaxSessions == 2
\* audio_start messages that find no playback task, and taps on the touch
\* screen, in one run of the session specification
SessionStarts == 1
MaxTaps == 2
\* calls of process_keyword_detection, and resets of the keyword detector,
\* in one run of the sample store specification
MaxKwFrames == 33
MaxKwResets == 1
\* frames read in one capture cycle of the uplink specification
MaxUpFrames == 7
\* binary frames the server sends in one run of the rotation specification
MaxRotationChunks == 5

(* ------------------------- program constants --------------------------- *)
RING_BUFFER_SIZE == 131072
PLAYBACK_BUFFER_SIZE == 8192
BUFFER_COUNT == 3
PREBUFFER_CHUNKS == 2
MAX_WAIT_ATTEMPTS == 200
INITIAL_WAIT_MAX == 200
DESTROY_POLLS == 40
AUDIO_CHUNK_SIZE == 48000
BUFFER_SIZE == 1024
SAFETY_MARGIN == 1000

\* per-item header of an ESP-IDF no-split ring buffer
RB_ITEM_HEADER == 8
\* sizes (bytes) of the binary frames the transport delivers: one that fits a
\* play buffer exactly and one that exceeds it
ChunkSizes == {8192, 61440}
\* slots of one M5.Speaker channel (one playing, one queued)
SINK_SLOTS == 2

NULL == 0

DeviceStates == {"BOOT", "CONNECTING_WIFI", "CONNECTING_SERVER", "READY",
                 "LISTENING", "PROCESSING", "TRANSCRIBING", "SPEAKING", "ERROR"}
PlaybackStates == {"IDLE", "RECEIVING", "PLAYING", "DRAINING", "COMPLETE"}

VARIABLES
    \* ---- session state, owned by the control loop
    current_state, websocket_connected, is_recording, audio_buffer_pos,
    \* ---- processing_expired: millis() - processing_start_time exceeds
    \*      PROCESSING_TIMEOUT
    processing_expired,
    \* ---- state shared between the control loop and the playback task
    playback_state, audio_playback_task_running, audio_playback_task_handle,
    audio_ring_buffer,
    \* ---- ring buffer objects: rbQueue = items of the buffer
    \*      audio_ring_buffer points to, rbCreated = buffers created so far,
    \*      rbDeleted[r] = number of vRingbufferDelete calls on buffer r
    rbQueue, rbCreated, rbDeleted,
    \* ---- control loop position and locals (d_i: poll counter of destroy,
    \*      d_ret: where destroy returns to, offered / offer_result: argument
    \*      and returned value of the last buffer_audio_chunk_to_ringbuf)
    pcL, d_i, d_ret, offered, offer_result,
    \* ---- playback task position and locals; play_buffers[i] is the id of
    \*      the chunk last copied into play buffer i; chunk_timed_out is
    \*      millis() - last_chunk_time > CHUNK_TIMEOUT as evaluated in the
    \*      current pass of the playback loop ("none" when it was not)
    pcT, taskId, prebuffer_count, play_buffers, buffer_idx,
    initial_wait, wait_attempts, chunk_timed_out,
    \* ---- speaker: play buffers held by the channel, oldest first
    sinkQ,
    \* ---- transport (WebSocketsClient) connection status
    ws_status,
    \* ---- environment: frames sent so far, and what the environment may
    \*      still do in this run (binary frames, audio_start messages that
    \*      find no playback task, taps)
    sent, frames_left, starts_left, taps_left,
    \* ---- observation variables of the current playback session:
    \*      accepted = the chunks the queue accepted, played = ids of the
    \*      chunks passed to playRaw, taken = chunks received from the queue,
    \*      lastPoll = result of the latest isPlaying(0) of the playback loop
    \*      not yet followed by a fetch (-1 when none), prebufTimedOut = a
    \*      pre-buffer receive has timed out, fault = invalid vTaskDelete
    accepted, played, taken, lastPoll, fault, prebufTimedOut,
    \* ---- voice activity detector (src/src/main.c): the statics of
    \*      detect_voice_activity, the locals and the result of its latest
    \*      call (vad_samples = length of the frame), the loop that made the
    \*      call, and two observation variables: vad_frames = frames
    \*      evaluated since boot, counted up to VAD_NOISE_SAMPLES + 1, and
    \*      vad_energy_total = sum of the average energies of the first
    \*      VAD_NOISE_SAMPLES frames
    noise_floor, noise_samples_count, noise_sum,
    vad_samples, avg_energy, max_amplitude, vad_result, vad_caller,
    vad_frames, vad_energy_total,
    \* ---- keyword detector (src/src/main.c): the fields of
    \*      keyword_detector_t; verify_expired stands for
    \*      current_time - detection_start > pdMS_TO_TICKS(1000);
    \*      kw_matched and kw_return are the pattern evaluation ("none"
    \*      when the call made none) and the returned value of the latest
    \*      process_keyword_detection; active_segments is the number of
    \*      active segments the latest pattern evaluation counted
    kw_state, keyword_detected, confidence, buffer_pos, samples_collected,
    verify_expired, kw_matched, kw_return, active_segments,
    \* ---- sample store of the keyword detector: audio_buffer[c] is the
    \*      number of the block of KW_CELL samples held at samples
    \*      c * KW_CELL .. c * KW_CELL + KW_CELL - 1, for the cells written
    \*      since init (the malloc'ed store holds nothing defined before),
    \*      analysis_buffer = the window the latest detect_keyword_pattern
    \*      copied out, and observation variables: kw_written = blocks
    \*      written since init, kw_added = samples added since the last
    \*      reset, kw_frames = calls since init, kw_resets = resets
    audio_buffer, analysis_buffer, kw_written, kw_added, kw_frames, kw_resets,
    \* ---- uplink streamer (record_and_stream_audio, src/src/main.c): its
    \*      position (up_pc: "loop" inside while (1), "returned" after it)
    \*      and locals; stream_buffer is the filled part of the chunk buffer,
    \*      a sequence of blocks of UP_CELL bytes, block <<k, i>> being the
    \*      i-th block of the k-th frame read.  Observation variables:
    \*      up_frames = the voice verdict of every frame read in the cycle,
    \*      up_calls = the calls of stream_audio_chunk in order, up_start =
    \*      number of the frame on which recording started (0 = not yet),
    \*      up_failed = number of the first call that returned an error
    \*      (0 = none), up_exit = the break that ended the loop
    up_pc, recording_started, is_first_chunk, stream_buffer, stream_buffer_pos,
    consecutive_voice_count, up_frames, up_calls, up_start, up_failed, up_exit

ctlVars == <<current_state, websocket_connected, is_recording, audio_buffer_pos,
             processing_expired>>
sharedVars == <<playback_state, audio_playback_task_running,
                audio_playback_task_handle, audio_ring_buffer>>
rbVars == <<rbQueue, rbCreated, rbDeleted>>
loopVars == <<pcL, d_i, d_ret, offered, offer_result>>
taskLocals == <<prebuffer_count, play_buffers, buffer_idx, initial_wait,
                wait_attempts, chunk_timed_out>>
taskVars == <<pcT, taskId, taskLocals>>
envVars == <<ws_status, sent, frames_left, starts_left, taps_left>>
histVars == <<accepted, played, taken, lastPoll, fault, prebufTimedOut>>

deviceVars == <<ctlVars, sharedVars, rbVars, loopVars, taskVars, sinkQ, envVars,
                histVars>>
vadStatics == <<noise_floor, noise_samples_count, noise_sum>>
vadVars == <<vadStatics, vad_samples, avg_energy, max_amplitude, vad_result,
             vad_caller, vad_frames, vad_energy_total>>
kwFields == <<kw_state, keyword_detected, confidence, buffer_pos,
              samples_collected>>
kwVars == <<kwFields, verify_expired, kw_matched, kw_return, active_segments>>
cbVars == <<audio_buffer, analysis_buffer, kw_written, kw_added, kw_frames,
            kw_resets>>
upLocals == <<recording_started, is_first_chunk, stream_buffer,
              stream_buffer_pos, consecutive_voice_count>>
upVars == <<up_pc, upLocals, up_frames, up_calls, up_start, up_failed, up_exit>>
auxVars == <<vadVars, kwVars, cbVars, upVars>>

vars == <<deviceVars, auxVars>>

NoChunk == [id |-> 0, size |-> 0]
EmptyBuffers == [i \in 0..(BUFFER_COUNT - 1) |-> 0]

(* ------------------------------ helpers -------------------------------- *)
RECURSIVE SumBytes(_)
\* bytes a sequence of items occupies in the ring buffer (header + payload)
SumBytes(q) ==
    IF q = <<>> THEN 0
    ELSE RB_ITEM_HEADER + Head(q).size + SumBytes(Tail(q))

\* xRingbufferSend(rb, data, length, 0): true iff the item fits right now
RingbufHasRoom(len) ==
    SumBytes(rbQueue) + RB_ITEM_HEADER + len <= RING_BUFFER_SIZE

TaskAlive == pcT \notin {"none", "exited", "killed"}

IsPrefix(s, t) == Len(s) <= Len(t) /\ s = SubSeq(t, 1, Len(s))

Min(a, b) == IF a < b THEN a ELSE b

(* ---------------------- voice activity detector ------------------------ *)
VAD_BASE_THRESHOLD == 600
VAD_NOISE_SAMPLES == 50
INT16_MIN == -32768

\* frames given to the detector while it learns the noise floor, and frames
\* given to it afterwards (samples of a frame in order; <<>> is a read of
\* fewer bytes than one sample)
WarmupFrames == {<<>>, <<0, 0>>, <<30, -31>>, <<700, -700>>}
Frames == WarmupFrames \cup {<<0, 1300>>, <<350, 350>>, <<-32768, -32768>>,
                             <<32767, 32767>>}

\* values a division by zero may leave in avg_energy when it does not trap
DivByZeroValues == {0, 700}

\* statics of detect_voice_activity at boot, no frame evaluated yet
VadInit ==
    /\ noise_floor = 0
    /\ noise_samples_count = 0
    /\ noise_sum = 0
    /\ vad_samples = 0
    /\ avg_energy = 0
    /\ max_amplitude = 0
    /\ vad_result = "none"
    /\ vad_caller = "keyword"
    /\ vad_frames = 0
    /\ vad_energy_total = 0

(* ------------------------- keyword detector ---------------------------- *)
SAMPLE_RATE == 16000
KEYWORD_BUFFER_SIZE == 32000
KEYWORD_MIN_LENGTH_MS == 800

\* thresholds of detect_keyword_pattern, and the energies given to it, in
\* units of 0.00001
FULL_ENERGY_FLOOR == 50
FALLBACK_ENERGY_FLOOR == 30
VARIATION_FLOOR == 5

\* sample counts of the frames given to the detector
KwFrameSizes == {BUFFER_SIZE, BUFFER_SIZE \div 2}

\* what the analysis of the buffered audio may find: active segments,
\* average energy and energy variation
KwActiveSegments == {0, 1, 2}
KwEnergies == {0, 40, 80}
KwVariations == {0, 10}

\* init_keyword_detector()
KwInit ==
    /\ kw_state = "LISTENING"
    /\ keyword_detected = FALSE
    /\ confidence = 0
    /\ buffer_pos = 0
    /\ samples_collected = 0
    /\ verify_expired = FALSE
    /\ kw_matched = "none"
    /\ kw_return = "none"
    /\ active_segments = 0

\* the sample store is followed in blocks of KW_CELL samples: every frame
\* length, the capacity and the analysis length are multiples of it
KW_CELL == 128
KwCells == KEYWORD_BUFFER_SIZE \div KW_CELL

\* init_keyword_detector(): the store is allocated, nothing is written
CbInit ==
    /\ audio_buffer = <<>>
    /\ analysis_buffer = <<>>
    /\ kw_written = 0
    /\ kw_added = 0
    /\ kw_frames = 0
    /\ kw_resets = 0

(* --------------------------- uplink streamer --------------------------- *)
STREAM_CHUNK_SIZE == 4096
VAD_MIN_CONSECUTIVE == 2

\* bytes one i2s_read delivers: BUFFER_SIZE * sizeof(int16_t)
FRAME_BYTES == BUFFER_SIZE * 2
\* the chunk buffer is followed in blocks of UP_CELL bytes: the frame length
\* and the chunk size are multiples of it
UP_CELL == 1024

\* record_and_stream_audio(): the locals as declared, before the loop
UpInit ==
    /\ up_pc = "loop"
    /\ recording_started = FALSE
    /\ is_first_chunk = TRUE
    /\ stream_buffer = <<>>
    /\ stream_buffer_pos = 0
    /\ consecutive_voice_count = 0
    /\ up_frames = <<>>
    /\ up_calls = <<>>
    /\ up_start = 0
    /\ up_failed = 0
    /\ up_exit = "none"

AuxInit == VadInit /\ KwInit /\ CbInit /\ UpInit

(* ------------------------------- Init ---------------------------------- *)
\* State at the end of setup() with WiFi associated: init_websocket() has
\* been called, no playback session exists.
Init ==
    /\ current_state = "CONNECTING_SERVER"
    /\ websocket_connected = FALSE
    /\ is_recording = FALSE
    /\ audio_buffer_pos = 0
    /\ processing_expired = FALSE
    /\ playback_state = "IDLE"
    /\ audio_playback_task_running = FALSE
    /\ audio_playback_task_handle = NULL
    /\ audio_ring_buffer = NULL
    /\ rbQueue = <<>>
    /\ rbCreated = 0
    /\ rbDeleted = [r \in 1..(MaxSessions + SessionStarts) |-> 0]
    /\ pcL = "ws"
    /\ d_i = 0
    /\ d_ret = "none"
    /\ offered = NoChunk
    /\ offer_result = "none"
    /\ pcT = "none"
    /\ taskId = 0
    /\ prebuffer_count = 0
    /\ play_buffers = EmptyBuffers
    /\ buffer_idx = 0
    /\ initial_wait = 0
    /\ wait_attempts = 0
    /\ chunk_timed_out = "none"
    /\ sinkQ = <<>>
    /\ ws_status = "connecting"
    /\ sent = 0
    /\ frames_left = MaxChunks
    /\ starts_left = MaxSessions
    /\ taps_left = 0
    /\ accepted = <<>>
    /\ played = <<>>
    /\ taken = 0
    /\ lastPoll = -1
    /\ fault = "none"
    /\ prebufTimedOut = FALSE
    /\ AuxInit

(* ===================== control loop: session handlers ================== *)

\* set_state(): only the assignment matters, the display is a collaborator
set_state(new_state) == current_state' = new_state

\* start_recording(); micOk is the result of M5.Mic.begin()
start_recording(micOk) ==
    IF is_recording
    THEN UNCHANGED ctlVars
    ELSE IF ~micOk
         THEN /\ set_state("ERROR")
              /\ UNCHANGED <<websocket_connected, is_recording, audio_buffer_pos, processing_expired>>
         ELSE /\ set_state("LISTENING")
              /\ is_recording' = TRUE
              /\ audio_buffer_pos' = 0
              /\ UNCHANGED <<websocket_connected, processing_expired>>

\* variant of stop_recording: the session goes to PROCESSING whether or not
\* there is audio to send
stop_recording_AlwaysProcessing(pos) ==
    IF ~is_recording
    THEN UNCHANGED ctlVars
    ELSE /\ is_recording' = FALSE
         /\ processing_expired' = FALSE
         /\ set_state("PROCESSING")
         /\ audio_buffer_pos' = 0
         /\ UNCHANGED websocket_connected

\* stop_recording() when audio_buffer_pos is pos
stop_recording(pos) ==
    IF ~is_recording
    THEN UNCHANGED ctlVars
    ELSE /\ is_recording' = FALSE
         /\ processing_expired' = FALSE
         /\ IF pos > 0
            THEN set_state("PROCESSING")
            ELSE set_state("READY")
         /\ audio_buffer_pos' = 0
         /\ UNCHANGED websocket_connected

(* ============ control loop: webSocket.loop() and its callback ========== *)

\* case WStype_CONNECTED
WsConnected ==
    /\ pcL = "ws"
    /\ ws_status = "connecting"
    /\ ws_status' = "open"
    /\ websocket_connected' = TRUE
    /\ set_state("READY")
    /\ UNCHANGED <<is_recording, audio_buffer_pos, processing_expired, sharedVars, rbVars, loopVars,
                   taskVars, sinkQ, sent, frames_left, starts_left, taps_left, histVars>>
    /\ UNCHANGED auxVars

\* variant of WsError: the Error event leaves websocket_connected as it was
WsError_KeepsConnected ==
    /\ pcL = "ws"
    /\ ws_status \in {"connecting", "open"}
    /\ set_state("ERROR")
    /\ UNCHANGED <<websocket_connected, is_recording, audio_buffer_pos, processing_expired,
                   sharedVars, rbVars, loopVars, taskVars, sinkQ, envVars,
                   histVars>>
    /\ UNCHANGED auxVars

\* case WStype_ERROR
WsError ==
    /\ pcL = "ws"
    /\ ws_status \in {"connecting", "open"}
    /\ websocket_connected' = FALSE
    /\ set_state("ERROR")
    /\ UNCHANGED <<is_recording, audio_buffer_pos, processing_expired, sharedVars, rbVars, loopVars,
                   taskVars, sinkQ, envVars, histVars>>
    /\ UNCHANGED auxVars

\* case WStype_DISCONNECTED, up to the call of destroy_audio_playback_task():
\* the handle test, the stop signal and vTaskDelay(100)
WsDisconnected ==
    /\ pcL = "ws"
    /\ ws_status \in {"connecting", "open"}
    /\ ws_status' = "connecting"
    /\ IF audio_playback_task_handle # NULL
       THEN /\ audio_playback_task_running' = FALSE
            /\ pcL' = "d_entry"
            /\ d_ret' = "disc_tail"
       ELSE /\ pcL' = "disc_tail"
            /\ UNCHANGED <<audio_playback_task_running, d_ret>>
    /\ UNCHANGED <<ctlVars, playback_state, audio_playback_task_handle,
                   audio_ring_buffer, rbVars, d_i, offered, offer_result, taskVars,
                   sinkQ, sent, frames_left, starts_left, taps_left, histVars>>
    /\ UNCHANGED auxVars

\* case WStype_DISCONNECTED, after the cleanup
WsDisconnectedTail ==
    /\ pcL = "disc_tail"
    /\ websocket_connected' = FALSE
    /\ playback_state' = "IDLE"
    /\ set_state("ERROR")
    /\ pcL' = "ws"
    /\ d_ret' = "none"
    /\ UNCHANGED <<is_recording, audio_buffer_pos, processing_expired, audio_playback_task_running,
                   audio_playback_task_handle, audio_ring_buffer, rbVars,
                   d_i, offered, offer_result, taskVars, sinkQ, envVars, histVars>>
    /\ UNCHANGED auxVars

\* handle_transcription_message: "transcription"
WsTextTranscription ==
    /\ pcL = "ws"
    /\ ws_status = "open"
    /\ set_state("TRANSCRIBING")
    /\ UNCHANGED <<websocket_connected, is_recording, audio_buffer_pos, processing_expired,
                   sharedVars, rbVars, loopVars, taskVars, sinkQ, envVars, histVars>>
    /\ UNCHANGED auxVars

\* handle_transcription_message: "error" with a message
WsTextError ==
    /\ pcL = "ws"
    /\ ws_status = "open"
    /\ set_state("READY")
    /\ UNCHANGED <<websocket_connected, is_recording, audio_buffer_pos, processing_expired,
                   sharedVars, rbVars, loopVars, taskVars, sinkQ, envVars, histVars>>
    /\ UNCHANGED auxVars

\* locals of a freshly created playback task
TaskLocalsInit ==
    /\ prebuffer_count' = 0
    /\ play_buffers' = EmptyBuffers
    /\ buffer_idx' = 0
    /\ initial_wait' = 0
    /\ wait_attempts' = 0
    /\ chunk_timed_out' = "none"

\* create_audio_playback_task(); rbOk and taskOk are the results of
\* xRingbufferCreate and xTaskCreatePinnedToCore
create_audio_playback_task(rbOk, taskOk) ==
    IF audio_playback_task_handle # NULL
    THEN UNCHANGED <<audio_playback_task_running, audio_playback_task_handle,
                     audio_ring_buffer, rbVars, taskVars, histVars>>
    ELSE IF ~rbOk
    THEN /\ audio_ring_buffer' = NULL
         /\ UNCHANGED <<audio_playback_task_running, audio_playback_task_handle,
                        rbVars, taskVars, histVars>>
    ELSE /\ rbCreated' = rbCreated + 1
         /\ rbQueue' = <<>>
         /\ accepted' = <<>>
         /\ played' = <<>>
         /\ taken' = 0
         /\ lastPoll' = -1
         /\ prebufTimedOut' = FALSE
         /\ UNCHANGED fault
         /\ IF taskOk
            THEN /\ audio_ring_buffer' = rbCreated + 1
                 /\ audio_playback_task_running' = TRUE
                 /\ audio_playback_task_handle' = taskId + 1
                 /\ pcT' = "t_start"
                 /\ taskId' = taskId + 1
                 /\ TaskLocalsInit
                 /\ UNCHANGED rbDeleted
            ELSE /\ rbDeleted' = [rbDeleted EXCEPT ![rbCreated + 1] = @ + 1]
                 /\ audio_ring_buffer' = NULL
                 /\ audio_playback_task_running' = FALSE
                 /\ UNCHANGED <<audio_playback_task_handle, taskVars>>

\* handle_transcription_message: "audio_start", up to the return of
\* create_audio_playback_task()
WsTextAudioStart ==
    /\ pcL = "ws"
    /\ ws_status = "open"
    /\ audio_playback_task_handle = NULL => starts_left > 0
    /\ starts_left' = IF audio_playback_task_handle = NULL
                      THEN starts_left - 1 ELSE starts_left
    /\ set_state("SPEAKING")
    /\ playback_state' = "RECEIVING"
    /\ \E rbOk \in BOOLEAN, taskOk \in BOOLEAN :
          create_audio_playback_task(rbOk, taskOk)
    /\ pcL' = "as_check"
    /\ UNCHANGED <<websocket_connected, is_recording, audio_buffer_pos, processing_expired,
                   d_i, d_ret, offered, offer_result, sinkQ, ws_status, sent,
                   frames_left, taps_left>>
    /\ UNCHANGED auxVars

\* handle_transcription_message: "audio_start", the handle test after
\* create_audio_playback_task()
AudioStartCheck ==
    /\ pcL = "as_check"
    /\ pcL' = "ws"
    /\ IF audio_playback_task_handle = NULL
       THEN /\ set_state("READY")
            /\ playback_state' = "IDLE"
       ELSE UNCHANGED <<current_state, playback_state>>
    /\ UNCHANGED <<websocket_connected, is_recording, audio_buffer_pos, processing_expired,
                   audio_playback_task_running, audio_playback_task_handle,
                   audio_ring_buffer, rbVars, d_i, d_ret, offered, offer_result,
                   taskVars, sinkQ, envVars, histVars>>
    /\ UNCHANGED auxVars

\* handle_transcription_message: "audio_complete", the test of playback_state
\* (a message that finds another state changes nothing)
AudioCompleteRead ==
    /\ pcL = "ws"
    /\ ws_status = "open"
    /\ playback_state \in {"RECEIVING", "PLAYING"}
    /\ pcL' = "ac_write"
    /\ UNCHANGED <<ctlVars, sharedVars, rbVars, d_i, d_ret, offered, offer_result,
                   taskVars, sinkQ, envVars, histVars>>
    /\ UNCHANGED auxVars

\* handle_transcription_message: "audio_complete", the assignment
AudioCompleteWrite ==
    /\ pcL = "ac_write"
    /\ playback_state' = "DRAINING"
    /\ pcL' = "ws"
    /\ UNCHANGED <<ctlVars, audio_playback_task_running,
                   audio_playback_task_handle, audio_ring_buffer, rbVars,
                   d_i, d_ret, offered, offer_result, taskVars, sinkQ, envVars, histVars>>
    /\ UNCHANGED auxVars

\* variant of buffer_audio_chunk_to_ringbuf: a full queue makes room by
\* discarding its oldest chunk
buffer_audio_chunk_to_ringbuf_DropOldest(c) ==
    /\ offered' = c
    /\ IF audio_ring_buffer = NULL
       THEN /\ offer_result' = "false"
            /\ UNCHANGED <<rbQueue, accepted>>
       ELSE IF RingbufHasRoom(c.size) \/ rbQueue = <<>>
       THEN /\ rbQueue' = Append(rbQueue, c)
            /\ accepted' = Append(accepted, c)
            /\ offer_result' = "true"
       ELSE /\ rbQueue' = Append(Tail(rbQueue), c)
            /\ accepted' = Append(accepted, c)
            /\ offer_result' = "true"

\* buffer_audio_chunk_to_ringbuf(data, length): rbQueue', accepted' and the
\* returned value
buffer_audio_chunk_to_ringbuf(c) ==
    /\ offered' = c
    /\ IF audio_ring_buffer = NULL
       THEN /\ offer_result' = "false"
            /\ UNCHANGED <<rbQueue, accepted>>
       ELSE IF RingbufHasRoom(c.size)
       THEN /\ rbQueue' = Append(rbQueue, c)
            /\ accepted' = Append(accepted, c)
            /\ offer_result' = "true"
       ELSE /\ offer_result' = "false"
            /\ UNCHANGED <<rbQueue, accepted>>

\* case WStype_BIN: the frame is offered to the queue only in RECEIVING,
\* PLAYING or DRAINING
WsBin ==
    /\ pcL = "ws"
    /\ ws_status = "open"
    /\ frames_left > 0
    /\ frames_left' = frames_left - 1
    /\ sent' = sent + 1
    /\ \E sz \in ChunkSizes :
          IF playback_state \in {"RECEIVING", "PLAYING", "DRAINING"}
          THEN buffer_audio_chunk_to_ringbuf([id |-> sent + 1, size |-> sz])
          ELSE /\ offered' = NoChunk
               /\ offer_result' = "none"
               /\ UNCHANGED <<rbQueue, accepted>>
    /\ UNCHANGED <<ctlVars, sharedVars, rbCreated, rbDeleted, pcL, d_i, d_ret,
                   taskVars, sinkQ, ws_status, starts_left, taps_left,
                   played, taken, lastPoll, fault, prebufTimedOut>>
    /\ UNCHANGED auxVars

\* webSocket.loop() returns
WsLoopReturn ==
    /\ pcL = "ws"
    /\ pcL' = "check"
    /\ UNCHANGED <<ctlVars, sharedVars, rbVars, d_i, d_ret, offered, offer_result,
                   taskVars, sinkQ, envVars, histVars>>
    /\ UNCHANGED auxVars

(* ============== control loop: completion check and teardown ============ *)

\* loop(): if (playback_state == PLAYBACK_COMPLETE) ... destroy
LoopCheckComplete ==
    /\ pcL = "check"
    /\ IF playback_state = "COMPLETE"
       THEN /\ pcL' = "d_entry"
            /\ d_ret' = "chk_tail"
       ELSE /\ pcL' = "touch"
            /\ UNCHANGED d_ret
    /\ UNCHANGED <<ctlVars, sharedVars, rbVars, d_i, offered, offer_result,
                   taskVars, sinkQ, envVars, histVars>>
    /\ UNCHANGED auxVars

\* loop(): after destroy_audio_playback_task() in the completion branch
LoopCompleteTail ==
    /\ pcL = "chk_tail"
    /\ playback_state' = "IDLE"
    /\ set_state("READY")
    /\ pcL' = "touch"
    /\ d_ret' = "none"
    /\ UNCHANGED <<websocket_connected, is_recording, audio_buffer_pos, processing_expired,
                   audio_playback_task_running, audio_playback_task_handle,
                   audio_ring_buffer, rbVars, d_i, offered, offer_result,
                   taskVars, sinkQ, envVars, histVars>>
    /\ UNCHANGED auxVars

\* destroy_audio_playback_task(): the early return and the stop signal
DestroyEntry ==
    /\ pcL = "d_entry"
    /\ d_i' = 0
    /\ IF audio_playback_task_handle = NULL
       THEN /\ pcL' = d_ret
            /\ UNCHANGED audio_playback_task_running
       ELSE /\ audio_playback_task_running' = FALSE
            /\ pcL' = "d_poll"
    /\ UNCHANGED <<ctlVars, playback_state, audio_playback_task_handle,
                   audio_ring_buffer, rbVars, d_ret, offered, offer_result,
                   taskVars, sinkQ, envVars, histVars>>
    /\ UNCHANGED auxVars

\* destroy_audio_playback_task(): the wait of at most DESTROY_POLLS polls for
\* the task to clear its handle, and the test that follows it
DestroyPoll ==
    /\ pcL = "d_poll"
    /\ IF audio_playback_task_handle = NULL
       THEN /\ pcL' = "d_rb"
            /\ UNCHANGED d_i
       ELSE /\ d_i' = DESTROY_POLLS
            /\ pcL' = "d_kill"
    /\ UNCHANGED <<ctlVars, sharedVars, rbVars, d_ret, offered, offer_result,
                   taskVars, sinkQ, envVars, histVars>>
    /\ UNCHANGED auxVars

\* vTaskDelete(h) called by the control loop: a null handle deletes the
\* caller, the handle of a task that has already deleted itself is invalid
ForceDelete(h) ==
    IF h = NULL
    THEN /\ fault' = "delete_null"
         /\ pcL' = "dead"
         /\ UNCHANGED <<pcT, taskLocals>>
    ELSE /\ pcL' = "d_rb"
         /\ IF h = taskId /\ TaskAlive
            THEN /\ pcT' = "killed"
                 /\ TaskLocalsInit
                 /\ UNCHANGED fault
            ELSE /\ fault' = "delete_stale"
                 /\ UNCHANGED <<pcT, taskLocals>>

\* destroy_audio_playback_task(): force delete; the handle passed is the value
\* tested before (that of the task created last) or the value the variable
\* has now (it is not volatile)
DestroyKill ==
    /\ pcL = "d_kill"
    /\ \E h \in {taskId, audio_playback_task_handle} : ForceDelete(h)
    /\ audio_playback_task_handle' = NULL
    /\ UNCHANGED <<ctlVars, playback_state, audio_playback_task_running,
                   audio_ring_buffer, rbVars, d_i, d_ret, offered, offer_result,
                   taskId, sinkQ, envVars,
                   accepted, played, taken, lastPoll, prebufTimedOut>>
    /\ UNCHANGED auxVars

\* destroy_audio_playback_task(): release of the ring buffer
DestroyRingbuf ==
    /\ pcL = "d_rb"
    /\ pcL' = d_ret
    /\ IF audio_ring_buffer # NULL
       THEN /\ rbDeleted' = [rbDeleted EXCEPT ![audio_ring_buffer] = @ + 1]
            /\ audio_ring_buffer' = NULL
            /\ rbQueue' = <<>>
       ELSE UNCHANGED <<rbDeleted, audio_ring_buffer, rbQueue>>
    /\ UNCHANGED <<ctlVars, playback_state, audio_playback_task_running,
                   audio_playback_task_handle, rbCreated, d_i, d_ret,
                   offered, offer_result, taskVars, sinkQ, envVars, histVars>>
    /\ UNCHANGED auxVars

(* ========== control loop: touch, timeouts, microphone read ============= *)

\* init_websocket()
init_websocket ==
    /\ set_state("CONNECTING_SERVER")
    /\ ws_status' = "connecting"

\* variant of handle_touch: a tap in ERROR retries the connection only, and
\* does nothing when the transport is connected
handle_touch_RetryOnly(tapped, micOk) ==
    IF ~tapped
    THEN UNCHANGED <<ctlVars, ws_status>>
    ELSE IF current_state = "READY"
    THEN start_recording(micOk) /\ UNCHANGED ws_status
    ELSE IF current_state = "LISTENING"
    THEN stop_recording(audio_buffer_pos) /\ UNCHANGED ws_status
    ELSE IF current_state = "ERROR" /\ ~websocket_connected
    THEN /\ init_websocket
         /\ UNCHANGED <<websocket_connected, is_recording, audio_buffer_pos,
                        processing_expired>>
    ELSE UNCHANGED <<ctlVars, ws_status>>

\* handle_touch(); tapped is M5.Touch.getCount() > 0
handle_touch(tapped, micOk) ==
    IF ~tapped
    THEN UNCHANGED <<ctlVars, ws_status>>
    ELSE IF current_state = "READY"
    THEN start_recording(micOk) /\ UNCHANGED ws_status
    ELSE IF current_state = "LISTENING"
    THEN stop_recording(audio_buffer_pos) /\ UNCHANGED ws_status
    ELSE IF current_state = "ERROR"
    THEN IF ~websocket_connected
         THEN /\ init_websocket
              /\ UNCHANGED <<websocket_connected, is_recording, audio_buffer_pos, processing_expired>>
         ELSE /\ set_state("READY")
              /\ UNCHANGED <<websocket_connected, is_recording, audio_buffer_pos, processing_expired,
                             ws_status>>
    ELSE UNCHANGED <<ctlVars, ws_status>>

LoopTouch ==
    /\ pcL = "touch"
    /\ pcL' = "ptimeout"
    /\ \E tapped \in BOOLEAN, micOk \in BOOLEAN :
          /\ tapped => taps_left > 0
          /\ taps_left' = IF tapped THEN taps_left - 1 ELSE taps_left
          /\ handle_touch(tapped, micOk)
    /\ UNCHANGED <<sharedVars, rbVars, d_i, d_ret, offered, offer_result,
                   taskVars, sinkQ, sent, frames_left, starts_left, histVars>>
    /\ UNCHANGED auxVars

\* time passes: more than PROCESSING_TIMEOUT ms have gone by since
\* stop_recording() set processing_start_time (the value is read in
\* PROCESSING and TRANSCRIBING only)
ProcessingTimePasses ==
    /\ current_state \in {"PROCESSING", "TRANSCRIBING"}
    /\ ~processing_expired
    /\ processing_expired' = TRUE
    /\ UNCHANGED <<current_state, websocket_connected, is_recording,
                   audio_buffer_pos, sharedVars, rbVars, loopVars, taskVars,
                   sinkQ, envVars, histVars>>
    /\ UNCHANGED auxVars

\* variant of check_processing_timeout: the timeout is applied in PROCESSING
\* only
check_processing_timeout_ProcessingOnly ==
    IF current_state = "PROCESSING" /\ processing_expired
    THEN /\ set_state("READY")
         /\ UNCHANGED <<websocket_connected, is_recording, audio_buffer_pos,
                        processing_expired>>
    ELSE UNCHANGED ctlVars

\* check_processing_timeout()
check_processing_timeout ==
    IF current_state \in {"PROCESSING", "TRANSCRIBING"} /\ processing_expired
    THEN /\ set_state("READY")
         /\ UNCHANGED <<websocket_connected, is_recording, audio_buffer_pos, processing_expired>>
    ELSE UNCHANGED ctlVars

LoopProcessingTimeout ==
    /\ pcL = "ptimeout"
    /\ pcL' = "rtimeout"
    /\ check_processing_timeout
    /\ UNCHANGED <<sharedVars, rbVars, d_i, d_ret, offered, offer_result,
                   taskVars, sinkQ, envVars, histVars>>
    /\ UNCHANGED auxVars

\* check_recording_timeout(); elapsed is
\* millis() - recording_start_time > RECORDING_TIMEOUT
check_recording_timeout(elapsed) ==
    IF is_recording /\ elapsed
    THEN stop_recording(audio_buffer_pos)
    ELSE UNCHANGED ctlVars

LoopRecordingTimeout ==
    /\ pcL = "rtimeout"
    /\ pcL' = "rec"
    /\ \E elapsed \in BOOLEAN : check_recording_timeout(elapsed)
    /\ UNCHANGED <<sharedVars, rbVars, d_i, d_ret, offered, offer_result,
                   taskVars, sinkQ, envVars, histVars>>
    /\ UNCHANGED auxVars

\* min((size_t)BUFFER_SIZE, AUDIO_CHUNK_SIZE - audio_buffer_pos): the
\* difference is a size_t, so that beyond AUDIO_CHUNK_SIZE it wraps to a value
\* above BUFFER_SIZE
SamplesToRead(pos) ==
    IF pos > AUDIO_CHUNK_SIZE
    THEN BUFFER_SIZE
    ELSE Min(BUFFER_SIZE, AUDIO_CHUNK_SIZE - pos)

\* variant of record_step: every read asks for BUFFER_SIZE samples and the
\* recording is not stopped when the buffer is nearly full
record_step_NoBound(micOk) ==
    IF ~is_recording
    THEN UNCHANGED ctlVars
    ELSE /\ audio_buffer_pos' = IF micOk THEN audio_buffer_pos + BUFFER_SIZE
                                ELSE audio_buffer_pos
         /\ UNCHANGED <<current_state, websocket_connected, is_recording,
                        processing_expired>>

\* loop(): the microphone read while recording and the safety stop; micOk is
\* M5.Mic.isEnabled() && M5.Mic.record(...)
record_step(micOk) ==
    IF ~is_recording
    THEN UNCHANGED ctlVars
    ELSE LET samples_to_read == SamplesToRead(audio_buffer_pos)
             pos == IF samples_to_read > 0 /\ micOk
                    THEN audio_buffer_pos + samples_to_read
                    ELSE audio_buffer_pos
         IN  IF pos >= AUDIO_CHUNK_SIZE - SAFETY_MARGIN
             THEN stop_recording(pos)
             ELSE /\ audio_buffer_pos' = pos
                  /\ UNCHANGED <<current_state, websocket_connected, is_recording,
                                 processing_expired>>

LoopRecord ==
    /\ pcL = "rec"
    /\ pcL' = "ws"
    /\ \E micOk \in BOOLEAN : record_step(micOk)
    /\ UNCHANGED <<sharedVars, rbVars, d_i, d_ret, offered, offer_result,
                   taskVars, sinkQ, envVars, histVars>>
    /\ UNCHANGED auxVars

(* ============================ playback task ============================ *)
\* what no playback-task step touches
TaskKeepsCtl == UNCHANGED <<ctlVars, loopVars, envVars, rbCreated, rbDeleted,
                            audio_ring_buffer, taskId, accepted, fault>>

\* heap_caps_malloc of the three play buffers (ok is false when one fails),
\* then M5.Speaker.end(); delay(100); begin(); stop(): the channel is empty
TaskStartup ==
    /\ pcT = "t_start"
    /\ \E ok \in BOOLEAN :
          IF ok
          THEN sinkQ' = <<>> /\ pcT' = "pre_check"
          ELSE UNCHANGED sinkQ /\ pcT' = "t_cleanup"
    /\ TaskKeepsCtl
    /\ UNCHANGED <<playback_state, audio_playback_task_running,
                   audio_playback_task_handle, rbQueue, taskLocals,
                   played, taken, lastPoll, prebufTimedOut>>
    /\ UNCHANGED auxVars

\* pre-buffer loop condition: prebuffer_count < PREBUFFER_CHUNKS &&
\* audio_playback_task_running && playback_state == PLAYBACK_RECEIVING
PrebufferCheck ==
    /\ pcT = "pre_check"
    /\ pcT' = IF /\ prebuffer_count < PREBUFFER_CHUNKS
                 /\ audio_playback_task_running
                 /\ playback_state = "RECEIVING"
              THEN "pre_recv" ELSE "pre_exit"
    /\ TaskKeepsCtl
    /\ UNCHANGED <<playback_state, audio_playback_task_running,
                   audio_playback_task_handle, rbQueue, taskLocals, sinkQ,
                   played, taken, lastPoll, prebufTimedOut>>
    /\ UNCHANGED auxVars

\* variant of TooLarge: the size of a received chunk is not checked
TooLarge_Never(item_size) == FALSE

\* if (item_size > PLAYBACK_BUFFER_SIZE), in the pre-buffer loop and in the
\* playback loop
TooLarge(item_size) == item_size > PLAYBACK_BUFFER_SIZE

\* pre-buffer loop body: xRingbufferReceive(audio_ring_buffer, &item_size,
\* 5 s); a chunk is checked for size, copied into
\* play_buffers[prebuffer_count] and returned; with an empty queue the call
\* returns nullptr when the 5 s have passed and the loop condition is
\* evaluated again
PrebufferReceive ==
    /\ pcT = "pre_recv"
    /\ audio_ring_buffer # NULL
    /\ IF rbQueue # <<>>
       THEN LET chunk == Head(rbQueue) IN
            /\ rbQueue' = Tail(rbQueue)
            /\ taken' = taken + 1
            /\ UNCHANGED prebufTimedOut
            /\ IF TooLarge(chunk.size)
               THEN /\ playback_state' = "COMPLETE"
                    /\ pcT' = "t_cleanup"
                    /\ UNCHANGED <<play_buffers, prebuffer_count>>
               ELSE /\ play_buffers' = [play_buffers EXCEPT ![prebuffer_count] = chunk.id]
                    /\ prebuffer_count' = prebuffer_count + 1
                    /\ pcT' = "pre_check"
                    /\ UNCHANGED playback_state
       ELSE /\ prebufTimedOut' = TRUE
            /\ pcT' = "pre_check"
            /\ UNCHANGED <<rbQueue, taken, playback_state, play_buffers,
                           prebuffer_count>>
    /\ TaskKeepsCtl
    /\ UNCHANGED <<audio_playback_task_running, audio_playback_task_handle,
                   buffer_idx, initial_wait, wait_attempts, chunk_timed_out, sinkQ, played,
                   lastPoll>>
    /\ UNCHANGED auxVars

\* variant of playRawAll: the buffers are passed to the sink last first
playRawAll_LastFirst(idxs) ==
    /\ sinkQ' = sinkQ \o [k \in 1..Len(idxs) |-> idxs[Len(idxs) + 1 - k]]
    /\ played' = played \o
                   [k \in 1..Len(idxs) |-> play_buffers[idxs[Len(idxs) + 1 - k]]]

\* M5.Speaker.playRaw of the play buffers in idxs, in that order: each buffer
\* is appended to the channel and its chunk is passed to the sink
playRawAll(idxs) ==
    /\ sinkQ' = sinkQ \o idxs
    /\ played' = played \o [k \in 1..Len(idxs) |-> play_buffers[idxs[k]]]

\* variant of PrebufferExit: playback starts with any pre-buffered chunk
PrebufferExit_PlaysPartial ==
    /\ pcT = "pre_exit"
    /\ prebufTimedOut' = FALSE
    /\ IF prebuffer_count < 1
       THEN /\ playback_state' = "COMPLETE"
            /\ pcT' = "t_cleanup"
            /\ UNCHANGED <<sinkQ, played, initial_wait>>
       ELSE /\ playback_state' = "PLAYING"
            /\ playRawAll([k \in 1..prebuffer_count |-> k - 1])
            /\ initial_wait' = 0
            /\ pcT' = "init_wait"
    /\ TaskKeepsCtl
    /\ UNCHANGED <<audio_playback_task_running, audio_playback_task_handle,
                   rbQueue, prebuffer_count, play_buffers, buffer_idx,
                   wait_attempts, chunk_timed_out, taken, lastPoll>>
    /\ UNCHANGED auxVars

\* after the pre-buffer loop: failure (COMPLETE, task_cleanup) or start of
\* playback (PLAYING and the pre-buffered chunks queued to the speaker,
\* buffer 0 first)
PrebufferExit ==
    /\ pcT = "pre_exit"
    /\ prebufTimedOut' = FALSE
    /\ IF prebuffer_count < PREBUFFER_CHUNKS
       THEN /\ playback_state' = "COMPLETE"
            /\ pcT' = "t_cleanup"
            /\ UNCHANGED <<sinkQ, played, initial_wait>>
       ELSE /\ playback_state' = "PLAYING"
            /\ playRawAll([k \in 1..prebuffer_count |-> k - 1])
            /\ initial_wait' = 0
            /\ pcT' = "init_wait"
    /\ TaskKeepsCtl
    /\ UNCHANGED <<audio_playback_task_running, audio_playback_task_handle,
                   rbQueue, prebuffer_count, play_buffers, buffer_idx,
                   wait_attempts, chunk_timed_out, taken, lastPoll>>
    /\ UNCHANGED auxVars

\* M5.Speaker.isPlaying(0): number of occupied slots of channel 0
isPlaying0 == Len(sinkQ)

\* the wait for the speaker to play with room in its queue: it ends when
\* isPlaying(0) is 1, or by expiry after INITIAL_WAIT_MAX polls that saw 0 or
\* 2, and then the task goes to task_cleanup
InitialWait ==
    /\ pcT = "init_wait"
    /\ IF isPlaying0 = 1
       THEN /\ buffer_idx' = prebuffer_count % BUFFER_COUNT
            /\ pcT' = "play_top"
            /\ UNCHANGED initial_wait
       ELSE /\ initial_wait' = INITIAL_WAIT_MAX
            /\ pcT' = "t_cleanup"
            /\ UNCHANGED buffer_idx
    /\ TaskKeepsCtl
    /\ UNCHANGED <<playback_state, audio_playback_task_running,
                   audio_playback_task_handle, rbQueue, prebuffer_count,
                   play_buffers, wait_attempts, chunk_timed_out, sinkQ, played, taken, lastPoll,
                   prebufTimedOut>>
    /\ UNCHANGED auxVars

\* playback loop: while (audio_playback_task_running)
\*                { if (playback_state == PLAYBACK_COMPLETE) break; ...
PlayLoopCheck ==
    /\ pcT = "play_top"
    /\ pcT' = IF audio_playback_task_running /\ playback_state # "COMPLETE"
              THEN "play_poll" ELSE "play_done"
    /\ wait_attempts' = 0
    /\ chunk_timed_out' = "none"
    /\ TaskKeepsCtl
    /\ UNCHANGED <<playback_state, audio_playback_task_running,
                   audio_playback_task_handle, rbQueue, prebuffer_count,
                   play_buffers, buffer_idx, initial_wait, sinkQ, played,
                   taken, lastPoll, prebufTimedOut>>
    /\ UNCHANGED auxVars

\* variant of PlayPollSink: a full speaker queue does not hold back the
\* dequeue
PlayPollSink_IgnoresFull ==
    /\ pcT = "play_poll"
    /\ lastPoll' = isPlaying0
    /\ IF isPlaying0 = 0
       THEN pcT' = "play_done" /\ UNCHANGED <<wait_attempts, chunk_timed_out>>
       ELSE pcT' = "play_recv" /\ UNCHANGED <<wait_attempts, chunk_timed_out>>
    /\ TaskKeepsCtl
    /\ UNCHANGED <<playback_state, audio_playback_task_running,
                   audio_playback_task_handle, rbQueue, prebuffer_count,
                   play_buffers, buffer_idx, initial_wait, sinkQ, played,
                   taken, prebufTimedOut>>
    /\ UNCHANGED auxVars

\* playback loop: the wait on the speaker queue before the next dequeue;
\* isPlaying(0) is 0 = stopped, 1 = room, 2 = full.  While it is 2 the task
\* polls again; the wait expires after MAX_WAIT_ATTEMPTS polls that saw 2
PlayPollSink ==
    /\ pcT = "play_poll"
    /\ lastPoll' = isPlaying0
    /\ IF isPlaying0 = 0
       THEN pcT' = "play_done" /\ UNCHANGED <<wait_attempts, chunk_timed_out>>
       ELSE IF isPlaying0 = 1
       THEN pcT' = "play_recv" /\ UNCHANGED <<wait_attempts, chunk_timed_out>>
       ELSE /\ wait_attempts' = MAX_WAIT_ATTEMPTS
            /\ pcT' = "play_done"
            /\ UNCHANGED chunk_timed_out
    /\ TaskKeepsCtl
    /\ UNCHANGED <<playback_state, audio_playback_task_running,
                   audio_playback_task_handle, rbQueue, prebuffer_count,
                   play_buffers, buffer_idx, initial_wait, sinkQ, played,
                   taken, prebufTimedOut>>
    /\ UNCHANGED auxVars

\* variant of NextBufferIdx: the play buffers do not rotate
NextBufferIdx_Same(idx) == idx

\* buffer_idx = (buffer_idx + 1) % BUFFER_COUNT
NextBufferIdx(idx) == (idx + 1) % BUFFER_COUNT

\* playback loop: xRingbufferReceive(audio_ring_buffer, &item_size, 100 ms);
\* a chunk is checked for size, copied into play_buffers[buffer_idx],
\* returned and passed to playRaw, and the buffers rotate
PlayReceive ==
    /\ pcT = "play_recv"
    /\ audio_ring_buffer # NULL
    /\ IF rbQueue # <<>>
       THEN LET chunk == Head(rbQueue) IN
            /\ rbQueue' = Tail(rbQueue)
            /\ taken' = taken + 1
            /\ lastPoll' = -1
            /\ IF TooLarge(chunk.size)
               THEN /\ pcT' = "play_done"
                    /\ UNCHANGED <<play_buffers, sinkQ, played, buffer_idx>>
               ELSE /\ Len(sinkQ) < SINK_SLOTS
                    /\ play_buffers' = [play_buffers EXCEPT ![buffer_idx] = chunk.id]
                    /\ sinkQ' = Append(sinkQ, buffer_idx)
                    /\ played' = Append(played, chunk.id)
                    /\ buffer_idx' = NextBufferIdx(buffer_idx)
                    /\ pcT' = "play_top"
       ELSE /\ pcT' = "play_none"
            /\ UNCHANGED <<rbQueue, taken, lastPoll, play_buffers, sinkQ,
                           played, buffer_idx>>
    /\ TaskKeepsCtl
    /\ UNCHANGED <<playback_state, audio_playback_task_running,
                   audio_playback_task_handle, prebuffer_count, initial_wait,
                   wait_attempts, chunk_timed_out, prebufTimedOut>>
    /\ UNCHANGED auxVars

\* variant of NoChunkEnds: only an empty queue in DRAINING ends the loop
NoChunkEnds_DrainOnly(state, stalled) == state = "DRAINING"

\* playback loop, no chunk: the two breaks of the else branch; stalled is
\* millis() - last_chunk_time > CHUNK_TIMEOUT
NoChunkEnds(state, stalled) == state = "DRAINING" \/ stalled

\* playback loop, no chunk: in DRAINING the loop ends; otherwise it ends when
\* stalled and polls again after vTaskDelay(50) if not.  The time since the
\* last chunk is read only when the state is not DRAINING
PlayNoChunk ==
    /\ pcT = "play_none"
    /\ lastPoll' = -1
    /\ \E stalled \in BOOLEAN :
          /\ chunk_timed_out' =
                 IF playback_state = "DRAINING" THEN chunk_timed_out
                 ELSE IF stalled THEN "true" ELSE "false"
          /\ pcT' = IF NoChunkEnds(playback_state, stalled)
                    THEN "play_done" ELSE "play_top"
    /\ TaskKeepsCtl
    /\ UNCHANGED <<playback_state, audio_playback_task_running,
                   audio_playback_task_handle, rbQueue, prebuffer_count,
                   play_buffers, buffer_idx, initial_wait, wait_attempts, sinkQ,
                   played, taken, prebufTimedOut>>
    /\ UNCHANGED auxVars

\* playback_done: wait until the speaker has finished, then COMPLETE
PlaybackDone ==
    /\ pcT = "play_done"
    /\ sinkQ = <<>>
    /\ playback_state' = "COMPLETE"
    /\ lastPoll' = -1
    /\ pcT' = "t_cleanup"
    /\ TaskKeepsCtl
    /\ UNCHANGED <<audio_playback_task_running, audio_playback_task_handle,
                   rbQueue, taskLocals, sinkQ, played, taken, prebufTimedOut>>
    /\ UNCHANGED auxVars

\* task_cleanup: free the play buffers, audio_playback_task_running = false,
\* audio_playback_task_handle = nullptr
TaskCleanup ==
    /\ pcT = "t_cleanup"
    /\ audio_playback_task_running' = FALSE
    /\ audio_playback_task_handle' = NULL
    /\ TaskLocalsInit
    /\ pcT' = "t_exit"
    /\ TaskKeepsCtl
    /\ UNCHANGED <<playback_state, rbQueue, sinkQ, played, taken, lastPoll,
                   prebufTimedOut>>
    /\ UNCHANGED auxVars

\* task_cleanup: vTaskDelete(nullptr)
TaskSelfDelete ==
    /\ pcT = "t_exit"
    /\ pcT' = "exited"
    /\ TaskKeepsCtl
    /\ UNCHANGED <<playback_state, audio_playback_task_running,
                   audio_playback_task_handle, rbQueue, taskLocals, sinkQ,
                   played, taken, lastPoll, prebufTimedOut>>
    /\ UNCHANGED auxVars

(* ============================== speaker ================================ *)
\* the speaker task finishes the buffer it is playing and frees its slot
SinkConsume ==
    /\ sinkQ # <<>>
    /\ sinkQ' = Tail(sinkQ)
    /\ UNCHANGED <<ctlVars, sharedVars, rbVars, loopVars, taskVars, envVars,
                   histVars>>
    /\ UNCHANGED auxVars

(* =========================== specification ============================= *)
\* control-loop steps that involve the playback engine
EngineControlStep ==
    \/ WsConnected \/ WsDisconnected \/ WsDisconnectedTail
    \/ WsTextAudioStart \/ AudioStartCheck
    \/ AudioCompleteRead \/ AudioCompleteWrite
    \/ WsLoopReturn
    \/ LoopCheckComplete \/ LoopCompleteTail
    \/ DestroyEntry \/ DestroyPoll \/ DestroyKill \/ DestroyRingbuf
    \/ LoopTouch \/ LoopProcessingTimeout \/ LoopRecordingTimeout \/ LoopRecord

\* control-loop steps that change session state only
SessionControlStep ==
    \/ WsError \/ WsTextTranscription \/ WsTextError

\* playback-task steps up to the end of pre-buffering, and the exit
TaskPrebufferStep ==
    \/ TaskStartup
    \/ PrebufferCheck \/ PrebufferReceive \/ PrebufferExit
    \/ TaskCleanup \/ TaskSelfDelete

\* playback-task steps of the playback phase
TaskPlayStep ==
    \/ InitialWait
    \/ PlayLoopCheck \/ PlayPollSink \/ PlayReceive \/ PlayNoChunk
    \/ PlaybackDone

TaskStep == TaskPrebufferStep \/ TaskPlayStep

\* the playback specification: the control loop, the playback task
\* and the speaker, under a server that sends audio and a transport that
\* connects and disconnects; nobody taps
Next == EngineControlStep \/ WsBin \/ TaskStep \/ SinkConsume

Spec == Init /\ [][Next]_vars

\* the session specification: the session state machine under taps, timeouts
\* and every transport event and server message except binary frames, so
\* that a playback session ends in its pre-buffer phase
NextSession ==
    EngineControlStep \/ SessionControlStep \/ TaskPrebufferStep
        \/ ProcessingTimePasses

InitSession ==
    /\ current_state = "CONNECTING_SERVER"
    /\ websocket_connected = FALSE
    /\ is_recording = FALSE
    /\ audio_buffer_pos = 0
    /\ processing_expired = FALSE
    /\ playback_state = "IDLE"
    /\ audio_playback_task_running = FALSE
    /\ audio_playback_task_handle = NULL
    /\ audio_ring_buffer = NULL
    /\ rbQueue = <<>>
    /\ rbCreated = 0
    /\ rbDeleted = [r \in 1..(MaxSessions + SessionStarts) |-> 0]
    /\ pcL = "ws"
    /\ d_i = 0
    /\ d_ret = "none"
    /\ offered = NoChunk
    /\ offer_result = "none"
    /\ pcT = "none"
    /\ taskId = 0
    /\ prebuffer_count = 0
    /\ play_buffers = EmptyBuffers
    /\ buffer_idx = 0
    /\ initial_wait = 0
    /\ wait_attempts = 0
    /\ chunk_timed_out = "none"
    /\ sinkQ = <<>>
    /\ ws_status = "connecting"
    /\ sent = 0
    /\ frames_left = 0
    /\ starts_left = SessionStarts
    /\ taps_left = MaxTaps
    /\ accepted = <<>>
    /\ played = <<>>
    /\ taken = 0
    /\ lastPoll = -1
    /\ fault = "none"
    /\ prebufTimedOut = FALSE
    /\ AuxInit

SpecSession == InitSession /\ [][NextSession]_vars

\* the rotation specification: one playback session long enough for the
\* play buffers to be used again, under a server that sends audio_start,
\* binary frames and audio_complete over a transport that stays connected;
\* the control loop handles one message after the other
NextRotation ==
    \/ WsConnected
    \/ WsTextAudioStart \/ AudioStartCheck
    \/ AudioCompleteRead \/ AudioCompleteWrite
    \/ WsBin
    \/ TaskStep
    \/ SinkConsume

InitRotation ==
    /\ current_state = "CONNECTING_SERVER"
    /\ websocket_connected = FALSE
    /\ is_recording = FALSE
    /\ audio_buffer_pos = 0
    /\ processing_expired = FALSE
    /\ playback_state = "IDLE"
    /\ audio_playback_task_running = FALSE
    /\ audio_playback_task_handle = NULL
    /\ audio_ring_buffer = NULL
    /\ rbQueue = <<>>
    /\ rbCreated = 0
    /\ rbDeleted = [r \in 1..(MaxSessions + SessionStarts) |-> 0]
    /\ pcL = "ws"
    /\ d_i = 0
    /\ d_ret = "none"
    /\ offered = NoChunk
    /\ offer_result = "none"
    /\ pcT = "none"
    /\ taskId = 0
    /\ prebuffer_count = 0
    /\ play_buffers = EmptyBuffers
    /\ buffer_idx = 0
    /\ initial_wait = 0
    /\ wait_attempts = 0
    /\ chunk_timed_out = "none"
    /\ sinkQ = <<>>
    /\ ws_status = "connecting"
    /\ sent = 0
    /\ frames_left = MaxRotationChunks
    /\ starts_left = 1
    /\ taps_left = 0
    /\ accepted = <<>>
    /\ played = <<>>
    /\ taken = 0
    /\ lastPoll = -1
    /\ fault = "none"
    /\ prebufTimedOut = FALSE
    /\ AuxInit

SpecRotation == InitRotation /\ [][NextRotation]_vars

TypeOK ==
    /\ current_state \in DeviceStates
    /\ playback_state \in PlaybackStates
    /\ websocket_connected \in BOOLEAN
    /\ is_recording \in BOOLEAN
    /\ processing_expired \in BOOLEAN
    /\ audio_buffer_pos \in 0..AUDIO_CHUNK_SIZE
    /\ Len(sinkQ) <= SINK_SLOTS
    /\ prebuffer_count \in 0..PREBUFFER_CHUNKS
    /\ buffer_idx \in 0..(BUFFER_COUNT - 1)

(* ============ voice activity detector (src/src/main.c) ================= *)

\* C integer division of a by b > 0: the quotient is truncated toward zero
CDiv(a, b) == IF a >= 0 THEN a \div b ELSE -((-a) \div b)

\* int16_t sample = abs(audio_buffer[i]): abs(-32768) is 32768, which the
\* conversion to int16_t turns back into -32768
Abs16(x) == IF x = INT16_MIN THEN INT16_MIN ELSE IF x < 0 THEN -x ELSE x

\* the loop over the samples: energy is the sum of the converted samples
RECURSIVE FrameEnergy(_)
FrameEnergy(f) ==
    IF f = <<>> THEN 0 ELSE Abs16(Head(f)) + FrameEnergy(Tail(f))

\* the loop over the samples: max_amplitude starts at 0 and is raised by
\* every converted sample above it
RECURSIVE FrameMax(_, _)
FrameMax(f, m) ==
    IF f = <<>> THEN m
    ELSE FrameMax(Tail(f), IF Abs16(Head(f)) > m THEN Abs16(Head(f)) ELSE m)

\* max_amplitude > avg_energy * 1.1, a comparison of doubles; on 32-bit
\* integers it is the comparison of 10 * max with 11 * avg
ExceedsRatio(max, avg) == 10 * max > 11 * avg

\* variant of VoiceDecision: both checks are required
VoiceDecision_BothChecks(nf, avg, max) ==
    LET adaptive_threshold == nf + VAD_BASE_THRESHOLD
        max_threshold == CDiv(adaptive_threshold, 2)
        energy_check == avg > adaptive_threshold
        amplitude_check == max > max_threshold
    IN  energy_check /\ (amplitude_check /\ ExceedsRatio(max, avg))

\* the decision after the warm-up: voice_detected
VoiceDecision(nf, avg, max) ==
    LET adaptive_threshold == nf + VAD_BASE_THRESHOLD
        max_threshold == CDiv(adaptive_threshold, 2)
        energy_check == avg > adaptive_threshold
        amplitude_check == max > max_threshold
    IN  energy_check \/ (amplitude_check /\ ExceedsRatio(max, avg))

\* variant of VadLearn: the noise floor is computed before the frame's
\* average energy is added to noise_sum
VadLearn_StaleSum(avg) ==
    /\ noise_sum' = noise_sum + avg
    /\ noise_samples_count' = noise_samples_count + 1
    /\ noise_floor' = IF noise_samples_count + 1 = VAD_NOISE_SAMPLES
                      THEN CDiv(noise_sum, VAD_NOISE_SAMPLES)
                      ELSE noise_floor

\* the learning branch: the frame's average energy is added to noise_sum and
\* the VAD_NOISE_SAMPLES-th frame sets noise_floor
VadLearn(avg) ==
    /\ noise_sum' = noise_sum + avg
    /\ noise_samples_count' = noise_samples_count + 1
    /\ noise_floor' = IF noise_samples_count + 1 = VAD_NOISE_SAMPLES
                      THEN CDiv(noise_sum + avg, VAD_NOISE_SAMPLES)
                      ELSE noise_floor

\* variant of detect_voice_activity: the decision is returned while learning
detect_voice_activity_NoWarmup(n, avg, max) ==
    /\ vad_samples' = n
    /\ avg_energy' = avg
    /\ max_amplitude' = max
    /\ IF noise_samples_count < VAD_NOISE_SAMPLES
       THEN /\ VadLearn(avg)
            /\ vad_result' = IF VoiceDecision(noise_floor', avg, max)
                             THEN "voice" ELSE "silence"
       ELSE /\ vad_result' = IF VoiceDecision(noise_floor, avg, max)
                             THEN "voice" ELSE "silence"
            /\ UNCHANGED vadStatics

\* detect_voice_activity(audio_buffer, samples) from the division on: n is
\* samples, avg and max are avg_energy and max_amplitude
detect_voice_activity(n, avg, max) ==
    /\ vad_samples' = n
    /\ avg_energy' = avg
    /\ max_amplitude' = max
    /\ IF noise_samples_count < VAD_NOISE_SAMPLES
       THEN /\ VadLearn(avg)
            /\ vad_result' = "silence"
       ELSE /\ vad_result' = IF VoiceDecision(noise_floor, avg, max)
                             THEN "voice" ELSE "silence"
            /\ UNCHANGED vadStatics

\* the frames the environment may give to the next call
NextFrames ==
    IF noise_samples_count < VAD_NOISE_SAMPLES THEN WarmupFrames ELSE Frames

\* what a call of detect_voice_activity adds to the observation variables
VadObserve(avg) ==
    /\ vad_frames' = Min(vad_frames + 1, VAD_NOISE_SAMPLES + 1)
    /\ vad_energy_total' = IF vad_frames < VAD_NOISE_SAMPLES
                           THEN vad_energy_total + avg
                           ELSE vad_energy_total

\* a call of detect_voice_activity on a frame of at least one sample, from
\* keyword_listening_loop or from record_and_stream_audio
VadEvaluate ==
    /\ vad_result # "fault"
    /\ \E f \in NextFrames \ {<<>>} :
          LET avg == CDiv(FrameEnergy(f), Len(f))
          IN  /\ detect_voice_activity(Len(f), avg, FrameMax(f, 0))
              /\ VadObserve(avg)
    /\ UNCHANGED <<vad_caller, deviceVars, kwVars, cbVars, upVars>>

\* a call on a frame of no sample: energy / samples divides by zero, which
\* either traps (the firmware panics) or leaves some value in avg_energy
VadEmptyFrame ==
    /\ vad_result # "fault"
    /\ <<>> \in NextFrames
    /\ \/ /\ vad_result' = "fault"
          /\ vad_samples' = 0
          /\ UNCHANGED <<vadStatics, avg_energy, max_amplitude, vad_frames,
                         vad_energy_total>>
       \/ \E avg \in DivByZeroValues :
             /\ detect_voice_activity(0, avg, 0)
             /\ VadObserve(avg)
    /\ UNCHANGED <<vad_caller, deviceVars, kwVars, cbVars, upVars>>

\* the firmware goes from keyword listening to command recording or back;
\* both loops call the same detect_voice_activity
VadSwitchCaller ==
    /\ vad_result # "fault"
    /\ vad_caller' = IF vad_caller = "keyword" THEN "command" ELSE "keyword"
    /\ UNCHANGED <<vadStatics, vad_samples, avg_energy, max_amplitude,
                   vad_result, vad_frames, vad_energy_total, deviceVars,
                   kwVars, cbVars, upVars>>

\* the detector specification: any sequence of frames from either loop
NextVad == VadEvaluate \/ VadEmptyFrame \/ VadSwitchCaller

SpecVad == Init /\ [][NextVad]_vars

(* =============== keyword detector (src/src/main.c) ===================== *)

\* keyword_detector_add_samples(detector, samples, count): positions after
\* count samples were written
AddSamplesPos(count) == (buffer_pos + count) % KEYWORD_BUFFER_SIZE
\* variant of the counter of keyword_detector_add_samples: it is not capped
AddSamplesCollected_Uncapped(count) == samples_collected + count
AddSamplesCollected(count) == Min(samples_collected + count, KEYWORD_BUFFER_SIZE)

\* detect_keyword_pattern(): the guard on the buffered length
EnoughSamples(collected) ==
    collected >= (SAMPLE_RATE * KEYWORD_MIN_LENGTH_MS) \div 1000

\* variant of KeywordPattern: there is no fallback detection
KeywordPattern_FullOnly(segs, energy, variation, collected) ==
    /\ segs >= 2
    /\ energy > FULL_ENERGY_FLOOR
    /\ variation > VARIATION_FLOOR
    /\ 10 * collected >= KEYWORD_BUFFER_SIZE

\* detect_keyword_pattern(): keyword_detected, from the number of active
\* segments, the average energy, the energy variation and the buffered length
KeywordPattern(segs, energy, variation, collected) ==
    LET has_sustained_speech == segs >= 2
        has_sufficient_energy == energy > FULL_ENERGY_FLOOR
        has_variation == variation > VARIATION_FLOOR
        reasonable_duration == 10 * collected >= KEYWORD_BUFFER_SIZE
        keyword_detected_full ==
            /\ has_sustained_speech
            /\ has_sufficient_energy
            /\ has_variation
            /\ reasonable_duration
        fallback_detection ==
            /\ segs >= 1
            /\ energy > FALLBACK_ENERGY_FLOOR
            /\ 20 * collected >= KEYWORD_BUFFER_SIZE
    IN  keyword_detected_full \/ fallback_detection

\* variant of process_keyword_detection: a first match confirms at once
process_keyword_detection_NoVerify(count, segs, energy, variation) ==
    LET collected == AddSamplesCollected(count)
        evaluated == kw_state \in {"LISTENING", "DETECTING"}
        enough == EnoughSamples(collected)
        match == enough /\ KeywordPattern(segs, energy, variation, collected)
    IN  /\ buffer_pos' = AddSamplesPos(count)
        /\ samples_collected' = collected
        /\ confidence' = IF evaluated /\ enough THEN energy ELSE confidence
        /\ active_segments' =
               IF evaluated /\ enough THEN segs ELSE active_segments
        /\ kw_matched' = IF ~evaluated THEN "none"
                         ELSE IF match THEN "yes" ELSE "no"
        /\ IF evaluated /\ match
           THEN /\ kw_state' = "CONFIRMED"
                /\ keyword_detected' = TRUE
                /\ kw_return' = "true"
                /\ UNCHANGED verify_expired
           ELSE IF kw_state = "DETECTING" /\ verify_expired
           THEN /\ kw_state' = "LISTENING"
                /\ kw_return' = "false"
                /\ UNCHANGED <<keyword_detected, verify_expired>>
           ELSE /\ kw_state' = IF kw_state = "TIMEOUT" THEN "LISTENING"
                               ELSE kw_state
                /\ kw_return' = "false"
                /\ UNCHANGED <<keyword_detected, verify_expired>>

\* process_keyword_detection(detector, audio_samples, sample_count) on a
\* frame of count samples whose analysis finds segs, energy and variation
process_keyword_detection(count, segs, energy, variation) ==
    LET collected == AddSamplesCollected(count)
        evaluated == kw_state \in {"LISTENING", "DETECTING"}
        enough == EnoughSamples(collected)
        match == enough /\ KeywordPattern(segs, energy, variation, collected)
    IN  /\ buffer_pos' = AddSamplesPos(count)
        /\ samples_collected' = collected
        /\ confidence' = IF evaluated /\ enough THEN energy ELSE confidence
        /\ active_segments' =
               IF evaluated /\ enough THEN segs ELSE active_segments
        /\ kw_matched' = IF ~evaluated THEN "none"
                         ELSE IF match THEN "yes" ELSE "no"
        /\ IF kw_state = "LISTENING"
           THEN /\ kw_state' = IF match THEN "DETECTING" ELSE "LISTENING"
                /\ verify_expired' = IF match THEN FALSE ELSE verify_expired
                /\ kw_return' = "false"
                /\ UNCHANGED keyword_detected
           ELSE IF kw_state = "DETECTING"
           THEN IF match
                THEN /\ kw_state' = "CONFIRMED"
                     /\ keyword_detected' = TRUE
                     /\ kw_return' = "true"
                     /\ UNCHANGED verify_expired
                ELSE /\ kw_state' = IF verify_expired
                                    THEN "LISTENING" ELSE "DETECTING"
                     /\ kw_return' = "false"
                     /\ UNCHANGED <<keyword_detected, verify_expired>>
           ELSE /\ kw_state' = IF kw_state = "TIMEOUT" THEN "LISTENING"
                               ELSE kw_state
                /\ kw_return' = "false"
                /\ UNCHANGED <<keyword_detected, verify_expired>>

\* variant of reset_keyword_detector: the buffered length is kept
reset_keyword_detector_KeepsSamples ==
    /\ kw_state' = "LISTENING"
    /\ keyword_detected' = FALSE
    /\ confidence' = 0
    /\ buffer_pos' = 0
    /\ UNCHANGED samples_collected

\* reset_keyword_detector(detector)
reset_keyword_detector ==
    /\ kw_state' = "LISTENING"
    /\ keyword_detected' = FALSE
    /\ confidence' = 0
    /\ buffer_pos' = 0
    /\ samples_collected' = 0

\* a call of process_keyword_detection on a voiced frame
KwProcess ==
    /\ \E count \in KwFrameSizes, segs \in KwActiveSegments,
          energy \in KwEnergies, variation \in KwVariations :
          process_keyword_detection(count, segs, energy, variation)
    /\ UNCHANGED <<deviceVars, vadVars, cbVars, upVars>>

\* a call of reset_keyword_detector
KwReset ==
    /\ reset_keyword_detector
    /\ kw_return' = "none"
    /\ kw_matched' = "none"
    /\ active_segments' = 0
    /\ UNCHANGED <<verify_expired, deviceVars, vadVars, cbVars,
                   upVars>>

\* time passes without a call (frames without voice are not given to the
\* detector): more than 1 s has gone by since detection_start
KwTimePasses ==
    /\ kw_state = "DETECTING"
    /\ ~verify_expired
    /\ verify_expired' = TRUE
    /\ UNCHANGED <<kwFields, kw_matched, kw_return, active_segments,
                   deviceVars, vadVars, cbVars, upVars>>

\* the keyword detector specification: any sequence of calls
NextKeyword == KwProcess \/ KwReset \/ KwTimePasses

SpecKeyword == Init /\ [][NextKeyword]_vars

(* ------------- sample store of the keyword detector -------------------- *)

\* the samples of a frame of count samples, as blocks numbered in the order
\* of writing
FrameBlocks(count) == [i \in 1..(count \div KW_CELL) |-> kw_written + i]

\* keyword_detector_add_samples(detector, samples, count): the store after
\* the loop has written samples[i] at buffer_pos and advanced buffer_pos
\* modulo the capacity, for each i in turn
AddSamplesBuffer(samples) ==
    LET first == buffer_pos \div KW_CELL
        n == Len(samples)
        \* the last i in 1..n written at cell c, when there is one
        Off(c) == (c + KwCells - first) % KwCells
        LastAt(c) == Off(c) + 1 + KwCells * ((n - Off(c) - 1) \div KwCells)
    IN  [c \in {d \in 0..(KwCells - 1) :
                    Off(d) < n \/ d \in DOMAIN audio_buffer} |->
            IF Off(c) < n THEN samples[LastAt(c)] ELSE audio_buffer[c]]

\* variant of the window of detect_keyword_pattern: read from the start of
\* the store
AnalysisWindow_FromStart(buf, pos, collected) ==
    LET samples_to_analyze == Min(SAMPLE_RATE * 1, collected)
    IN  [i \in 1..(samples_to_analyze \div KW_CELL) |->
            buf[(i - 1) % KwCells]]

\* detect_keyword_pattern(): analysis_buffer, copied from the store buf with
\* write position pos and collected samples
AnalysisWindow(buf, pos, collected) ==
    LET samples_to_analyze == Min(SAMPLE_RATE * 1, collected)
        start_pos ==
            (pos + KEYWORD_BUFFER_SIZE - samples_to_analyze)
                % KEYWORD_BUFFER_SIZE
    IN  [i \in 1..(samples_to_analyze \div KW_CELL) |->
            buf[((start_pos \div KW_CELL) + i - 1) % KwCells]]

\* a call of process_keyword_detection on a frame in which the analysis
\* finds no speech pattern, with the sample store followed
CbProcess ==
    /\ kw_frames < MaxKwFrames
    /\ \E count \in KwFrameSizes :
          LET samples == FrameBlocks(count)
              buf == AddSamplesBuffer(samples)
              collected == AddSamplesCollected(count)
          IN  /\ process_keyword_detection(count, 0, 0, 0)
              /\ audio_buffer' = buf
              /\ analysis_buffer' =
                     IF kw_state \in {"LISTENING", "DETECTING"}
                        /\ EnoughSamples(collected)
                     THEN AnalysisWindow(buf, AddSamplesPos(count), collected)
                     ELSE analysis_buffer
              /\ kw_written' = kw_written + Len(samples)
              /\ kw_added' = kw_added + count
              /\ kw_frames' = kw_frames + 1
    /\ UNCHANGED <<kw_resets, deviceVars, vadVars, upVars>>

\* a call of reset_keyword_detector, with the sample store followed
CbReset ==
    /\ kw_resets < MaxKwResets
    /\ reset_keyword_detector
    /\ kw_return' = "none"
    /\ kw_matched' = "none"
    /\ active_segments' = 0
    /\ kw_added' = 0
    /\ kw_resets' = kw_resets + 1
    /\ UNCHANGED <<verify_expired, audio_buffer, analysis_buffer, kw_written,
                   kw_frames, deviceVars, vadVars, upVars>>

NextBuffer == CbProcess \/ CbReset

SpecBuffer == Init /\ [][NextBuffer]_vars

(* ============ uplink streamer (src/src/main.c) ========================= *)

\* the frames the microphone delivers during a capture cycle (samples of a
\* frame in order): one without voice and one with voice
UpFrameKinds == {<<0, 0>>, <<700, -700>>}

\* temp_buffer after the k-th i2s_read of the cycle, which fills it
FrameBytes(k) == [i \in 1..(FRAME_BYTES \div UP_CELL) |-> <<k, i>>]

\* a call stream_audio_chunk(audio_data, data_len, is_first_chunk,
\* is_last_chunk): the body and the two markers
Call(data, first, last) ==
    [body |-> data, is_first_chunk |-> first, is_last_chunk |-> last]

\* the number of the first call that returned an error, after the calls to
\* have been made
FirstFailure(calls, failed_now) ==
    IF up_failed = 0 /\ failed_now THEN Len(calls) ELSE up_failed

\* variant of VoiceCount: a frame without voice leaves the count as it is
VoiceCount_NoReset(voice_detected) ==
    IF voice_detected THEN consecutive_voice_count + 1
    ELSE consecutive_voice_count

\* consecutive_voice_count after the test of voice_detected
VoiceCount(voice_detected) ==
    IF voice_detected THEN consecutive_voice_count + 1 ELSE 0

\* variant of FirstChunkAfter: is_first_chunk is never cleared
FirstChunkAfter_NeverCleared(full) == is_first_chunk

\* is_first_chunk after the test of the chunk buffer being full, which
\* clears it when the chunk was handed to stream_audio_chunk
FirstChunkAfter(full) == IF full THEN FALSE ELSE is_first_chunk

\* variant of PosAfter: the position is not reset after a chunk was sent
PosAfter_NoReset(full, pos, remaining) == pos

\* stream_buffer_pos after the test of the chunk buffer being full: a sent
\* chunk resets it to the length of the rest of the frame
PosAfter(full, pos, remaining) == IF full THEN remaining ELSE pos

\* one pass through the body of while (1) in record_and_stream_audio with
\* i2s_read returning ESP_OK and a full frame f.  silence_elapsed and
\* duration_elapsed are the outcomes of the two tick comparisons, send_ok is
\* stream_err == ESP_OK of the chunk sent in this pass, if one is sent.
record_pass(f, silence_elapsed, duration_elapsed, send_ok) ==
    LET k == Len(up_frames) + 1
        bytes_read == FRAME_BYTES
        avg == CDiv(FrameEnergy(f), Len(f))
        voice_detected == vad_result' = "voice"
        count == VoiceCount(voice_detected)
        starts ==
            /\ voice_detected
            /\ ~recording_started
            /\ count >= VAD_MIN_CONSECUTIVE
        started == recording_started \/ starts
        \* stream_buffer_pos = 0 when recording starts
        pos0 == IF starts THEN 0 ELSE stream_buffer_pos
        buf0 == IF starts THEN <<>> ELSE stream_buffer
        \* add data to stream buffer
        bytes_to_copy ==
            IF pos0 + bytes_read > STREAM_CHUNK_SIZE
            THEN STREAM_CHUNK_SIZE - pos0 ELSE bytes_read
        copied == bytes_to_copy \div UP_CELL
        buf1 == buf0 \o SubSeq(FrameBytes(k), 1, copied)
        pos1 == pos0 + bytes_to_copy
        \* stream when buffer is full
        full == pos1 >= STREAM_CHUNK_SIZE
        remaining == bytes_read - bytes_to_copy
        calls1 ==
            IF full THEN Append(up_calls, Call(buf1, is_first_chunk, FALSE))
            ELSE up_calls
        buf2 ==
            IF full
            THEN SubSeq(FrameBytes(k), copied + 1, Len(FrameBytes(k)))
            ELSE buf1
        pos2 == PosAfter(full, pos1, remaining)
        first2 == FirstChunkAfter(full)
        \* the two ends of the cycle
        silence == ~voice_detected /\ silence_elapsed
        calls2 ==
            IF silence
            THEN IF pos2 > 0 THEN Append(calls1, Call(buf2, FALSE, TRUE))
                 ELSE IF ~first2 THEN Append(calls1, Call(<<>>, FALSE, TRUE))
                 ELSE calls1
            ELSE IF duration_elapsed /\ pos2 > 0
            THEN Append(calls1, Call(buf2, FALSE, TRUE))
            ELSE calls1
    IN  /\ detect_voice_activity(Len(f), avg, FrameMax(f, 0))
        /\ VadObserve(avg)
        /\ up_frames' = Append(up_frames, voice_detected)
        /\ consecutive_voice_count' = count
        /\ recording_started' = started
        /\ up_start' = IF starts THEN k ELSE up_start
        /\ IF started
           THEN /\ stream_buffer' = buf2
                /\ stream_buffer_pos' = pos2
                /\ is_first_chunk' = first2
                /\ up_calls' = calls2
                /\ up_failed' = FirstFailure(calls1, full /\ ~send_ok)
                /\ up_pc' = IF silence \/ duration_elapsed
                            THEN "returned" ELSE "loop"
                /\ up_exit' = IF silence THEN "silence"
                              ELSE IF duration_elapsed THEN "duration"
                              ELSE up_exit
           ELSE UNCHANGED <<stream_buffer, stream_buffer_pos, is_first_chunk,
                            up_calls, up_failed, up_pc, up_exit>>

\* a pass of the loop on a frame.  The tick comparisons can only come out
\* true in a pass that recording had started before.
UpFrame ==
    /\ up_pc = "loop"
    /\ Len(up_frames) < MaxUpFrames
    /\ \E f \in UpFrameKinds, silence_elapsed \in BOOLEAN,
          duration_elapsed \in BOOLEAN, send_ok \in BOOLEAN :
          /\ (silence_elapsed \/ duration_elapsed) => recording_started
          /\ record_pass(f, silence_elapsed, duration_elapsed, send_ok)
    /\ UNCHANGED <<vad_caller, deviceVars, kwVars, cbVars>>

\* i2s_read returns an error: the loop is left at once
UpReadError ==
    /\ up_pc = "loop"
    /\ up_pc' = "returned"
    /\ up_exit' = "read_error"
    /\ UNCHANGED <<upLocals, up_frames, up_calls, up_start, up_failed,
                   deviceVars, vadVars, kwVars, cbVars>>

NextUplink == UpFrame \/ UpReadError

\* record_and_stream_audio() is entered from keyword_listening_loop when
\* process_keyword_detection has returned true: the detector has confirmed
\* on its KW_ENTRY_FRAMES-th frame of BUFFER_SIZE samples, and the voice
\* activity detector has learned its noise floor on frames of silence
KW_ENTRY_FRAMES == 14

InitUplink ==
    /\ current_state = "CONNECTING_SERVER"
    /\ websocket_connected = FALSE
    /\ is_recording = FALSE
    /\ audio_buffer_pos = 0
    /\ processing_expired = FALSE
    /\ playback_state = "IDLE"
    /\ audio_playback_task_running = FALSE
    /\ audio_playback_task_handle = NULL
    /\ audio_ring_buffer = NULL
    /\ rbQueue = <<>>
    /\ rbCreated = 0
    /\ rbDeleted = [r \in 1..(MaxSessions + SessionStarts) |-> 0]
    /\ pcL = "ws"
    /\ d_i = 0
    /\ d_ret = "none"
    /\ offered = NoChunk
    /\ offer_result = "none"
    /\ pcT = "none"
    /\ taskId = 0
    /\ prebuffer_count = 0
    /\ play_buffers = EmptyBuffers
    /\ buffer_idx = 0
    /\ initial_wait = 0
    /\ wait_attempts = 0
    /\ chunk_timed_out = "none"
    /\ sinkQ = <<>>
    /\ ws_status = "connecting"
    /\ sent = 0
    /\ frames_left = 0
    /\ starts_left = 0
    /\ taps_left = 0
    /\ accepted = <<>>
    /\ played = <<>>
    /\ taken = 0
    /\ lastPoll = -1
    /\ fault = "none"
    /\ prebufTimedOut = FALSE
    /\ noise_floor = 0
    /\ noise_samples_count = VAD_NOISE_SAMPLES
    /\ noise_sum = 0
    /\ vad_samples = 2
    /\ avg_energy = 700
    /\ max_amplitude = 700
    /\ vad_result = "voice"
    /\ vad_caller = "command"
    /\ vad_frames = VAD_NOISE_SAMPLES + 1
    /\ vad_energy_total = 0
    /\ kw_state = "CONFIRMED"
    /\ keyword_detected = TRUE
    /\ confidence = 80
    /\ buffer_pos = KW_ENTRY_FRAMES * BUFFER_SIZE
    /\ samples_collected = KW_ENTRY_FRAMES * BUFFER_SIZE
    /\ verify_expired = FALSE
    /\ kw_matched = "yes"
    /\ kw_return = "true"
    /\ active_segments = 2
    /\ audio_buffer =
           [c \in 0..(((KW_ENTRY_FRAMES * BUFFER_SIZE) \div KW_CELL) - 1) |->
               c + 1]
    /\ analysis_buffer =
           [i \in 1..((KW_ENTRY_FRAMES * BUFFER_SIZE) \div KW_CELL) |-> i]
    /\ kw_written = (KW_ENTRY_FRAMES * BUFFER_SIZE) \div KW_CELL
    /\ kw_added = KW_ENTRY_FRAMES * BUFFER_SIZE
    /\ kw_frames = KW_ENTRY_FRAMES
    /\ kw_resets = 0
    /\ UpInit

SpecUplink == InitUplink /\ [][NextUplink]_vars

(* ============================== claims ================================= *)
Ids(q) == [k \in 1..Len(q) |-> q[k].id]

\* positions of the playback task inside its playback phase
PlayPhase == {"init_wait", "play_top", "play_poll", "play_recv", "play_none",
              "play_done"}

\* C1: the chunks passed to M5.Speaker.playRaw, pre-buffered ones included,
\* are at every moment a prefix of the chunks the queue accepted, in the same
\* order (nothing reordered, nothing played twice)
C1_PlayOrderIsOfferOrder == IsPrefix(played, Ids(accepted))

\* three chunks were accepted and all three were played: two pre-buffered,
\* one fetched by the playback loop
C1_Witness ==
    /\ Len(played) = 3
    /\ played = Ids(accepted)
    /\ taken = 3

\* C2: an offer returns at once; with no queue or no room for the chunk it
\* returns false and leaves the queued chunks as they were, otherwise it
\* returns true and the chunk is the new tail of the queue
C2_OfferNeverBlocks ==
    [][(sent' = sent + 1 /\ offered'.id # 0) =>
          /\ pcL' = "ws"
          /\ offered'.id = sent'
          /\ IF audio_ring_buffer = NULL \/ ~RingbufHasRoom(offered'.size)
             THEN offer_result' = "false" /\ rbQueue' = rbQueue
             ELSE offer_result' = "true" /\ rbQueue' = Append(rbQueue, offered')
      ]_vars

\* a chunk was dropped because the queue, holding chunks, had no room for it
C2_Witness ==
    /\ offer_result = "false"
    /\ audio_ring_buffer # NULL
    /\ Len(rbQueue) >= 2
    /\ offered.id \notin {rbQueue[k].id : k \in 1..Len(rbQueue)}

\* C3: when the engine goes from Draining to Complete in a session whose
\* queue accepted N >= 1 chunks, each fitting a play buffer, the queue is
\* empty and all N chunks have been passed to the sink
C3_DrainCompleteness ==
    [][(/\ playback_state = "DRAINING"
        /\ playback_state' = "COMPLETE"
        /\ accepted # <<>>
        /\ \A k \in 1..Len(accepted) : accepted[k].size <= PLAYBACK_BUFFER_SIZE)
       => (rbQueue' = <<>> /\ played' = Ids(accepted'))]_vars

\* C4: no chunk is passed to the sink before the task has taken
\* PREBUFFER_CHUNKS chunks from the queue
C4_PrebufferGating == played # <<>> => taken >= PREBUFFER_CHUNKS

\* the pre-buffered chunks have just been passed to the sink
C4_Witness ==
    /\ pcT = "init_wait"
    /\ Len(played) = PREBUFFER_CHUNKS
    /\ taken = PREBUFFER_CHUNKS

\* C5: once a pre-buffer receive has timed out with fewer than
\* PREBUFFER_CHUNKS chunks taken, the task does not wait for a chunk again
C5_PrebufferTimeoutEnds ==
    (prebufTimedOut /\ prebuffer_count < PREBUFFER_CHUNKS) => pcT # "pre_recv"

C6_WitnessFull ==
    /\ pcT = "play_done"
    /\ lastPoll = SINK_SLOTS
    /\ wait_attempts = MAX_WAIT_ATTEMPTS

\* C7: apart from the queue no variable is written in one context and read
\* or written in the other: a step of the playback task leaves every variable
\* the control loop and the network callback read or write as it was
C7_OnlyQueueShared ==
    [][TaskStep => UNCHANGED <<ctlVars, playback_state,
                               audio_playback_task_running,
                               audio_playback_task_handle,
                               audio_ring_buffer>>]_vars

\* C8: when destroy_audio_playback_task returns to the disconnect handler
\* that found a playback task, the task no longer runs, both handles are
\* null, the wait took at most DESTROY_POLLS polls and the session's ring
\* buffer has been deleted exactly once
C8_CancellationReleases ==
    (pcL = "disc_tail" /\ d_ret = "disc_tail") =>
        /\ pcT \in {"t_exit", "exited", "killed"}
        /\ audio_playback_task_handle = NULL
        /\ audio_ring_buffer = NULL
        /\ d_i <= DESTROY_POLLS
        /\ rbDeleted[rbCreated] = 1

\* C9: the completion branch of loop() ends with the task and the queue
\* destroyed, the playback state Idle and the session Ready
C9_CompleteThenReady ==
    [][(pcL = "chk_tail" /\ pcL' = "touch") =>
          /\ playback_state' = "IDLE"
          /\ current_state' = "READY"
          /\ audio_playback_task_handle' = NULL
          /\ pcT' \in {"t_exit", "exited", "killed"}
          /\ audio_ring_buffer' = NULL
          /\ rbDeleted'[rbCreated'] = 1
      ]_vars

\* C10: the handler of a transport Error event, and the handler of a
\* transport Disconnected event when it returns, leave the session in Error
\* with websocket_connected false
C10_TransportFaultToError ==
    [][(WsError \/ WsDisconnectedTail) =>
          (current_state' = "ERROR" /\ websocket_connected' = FALSE)]_vars

\* a transport fault arrived while the session was recording
C10_Witness ==
    /\ current_state = "ERROR"
    /\ ~websocket_connected
    /\ is_recording
    /\ pcL = "ws"

\* a step of loop() in which handle_touch() sees a tap
Tap == taps_left' = taps_left - 1

\* C11 as stated: a tap in Ready starts recording and moves the session to
\* Listening; a tap while recording in Listening stops recording and moves
\* the session to Processing
C11_TapTransitions ==
    [][Tap =>
          /\ current_state = "READY" =>
                (current_state' = "LISTENING" /\ is_recording')
          /\ (current_state = "LISTENING" /\ is_recording) =>
                (current_state' = "PROCESSING" /\ ~is_recording')
      ]_vars

\* C11 amended: a tap in Ready with no recording under way starts recording
\* and moves the session to Listening, or moves it to Error without
\* recording (the microphone did not restart); a tap in Ready with
\* is_recording still set changes nothing; a tap in Listening stops
\* recording and moves the session to Processing when samples were recorded
\* and to Ready when none were
C11_TapTransitionsAmended ==
    [][Tap =>
          /\ (current_state = "READY" /\ ~is_recording) =>
                \/ /\ current_state' = "LISTENING"
                   /\ is_recording'
                   /\ audio_buffer_pos' = 0
                \/ /\ current_state' = "ERROR"
                   /\ ~is_recording'
          /\ (current_state = "READY" /\ is_recording) => UNCHANGED ctlVars
          /\ (current_state = "LISTENING" /\ is_recording) =>
                /\ ~is_recording'
                /\ audio_buffer_pos' = 0
                /\ current_state' = IF audio_buffer_pos > 0
                                    THEN "PROCESSING" ELSE "READY"
      ]_vars

\* two taps: the first started the recording, the second stopped it with
\* samples recorded
C11_Witness ==
    /\ current_state = "PROCESSING"
    /\ ~is_recording
    /\ taps_left = MaxTaps - 2
    /\ pcL = "ptimeout"

\* C12: a tap in Error moves the session to ConnectingServer when the
\* transport is not connected and to Ready when it is, and to no other state
C12_TapInError ==
    [][(Tap /\ current_state = "ERROR") =>
          /\ current_state' = IF websocket_connected
                              THEN "READY" ELSE "CONNECTING_SERVER"
          /\ ~websocket_connected => ws_status' = "connecting"
      ]_vars

\* a tap in Error has started a new connection attempt
C12_Witness ==
    /\ current_state = "CONNECTING_SERVER"
    /\ ws_status = "connecting"
    /\ ~websocket_connected
    /\ taps_left < MaxTaps

\* a tap in Error with the transport connected is possible
C12_WitnessConnected ==
    /\ current_state = "ERROR"
    /\ websocket_connected
    /\ pcL = "touch"
    /\ taps_left > 0

\* C13: a poll of check_processing_timeout() made in Processing or
\* Transcribing after more than PROCESSING_TIMEOUT ms since recording
\* stopped puts the session in Ready
C13_ProcessingTimeout ==
    [][(/\ pcL = "ptimeout"
        /\ pcL' = "rtimeout"
        /\ current_state \in {"PROCESSING", "TRANSCRIBING"}
        /\ processing_expired)
       => current_state' = "READY"]_vars

\* the timeout has expired in Transcribing and the poll is about to run
C13_Witness ==
    /\ pcL = "ptimeout"
    /\ current_state = "TRANSCRIBING"
    /\ processing_expired

\* C14: each of the first VAD_NOISE_SAMPLES frames evaluated since boot is
\* reported as no voice, whatever its amplitudes
C14_WarmupReportsNoVoice ==
    (vad_frames \in 1..VAD_NOISE_SAMPLES /\ vad_result # "fault")
        => vad_result = "silence"

\* the last frame of the warm-up was loud enough to pass both checks of the
\* decision and was reported as no voice
C14_Witness ==
    /\ vad_frames = VAD_NOISE_SAMPLES
    /\ vad_result = "silence"
    /\ avg_energy > noise_floor + VAD_BASE_THRESHOLD

\* C15: the detector learns for exactly the first VAD_NOISE_SAMPLES frames;
\* after them noise_floor is the integer mean of their average energies, and
\* from then on no call, from either loop, changes noise_floor or the
\* learning counters
C15_NoiseFloorFrozen ==
    [][/\ (noise_samples_count' < VAD_NOISE_SAMPLES)
             <=> (vad_frames' < VAD_NOISE_SAMPLES)
       /\ vad_frames' >= VAD_NOISE_SAMPLES =>
             /\ noise_floor' = CDiv(vad_energy_total', VAD_NOISE_SAMPLES)
             /\ noise_samples_count' = VAD_NOISE_SAMPLES
       /\ vad_frames >= VAD_NOISE_SAMPLES => UNCHANGED vadStatics
      ]_vars

\* a loud frame was evaluated from the command-recording loop after the
\* warm-up, with a noise floor that is not a multiple of the frame energies
C15_Witness ==
    /\ vad_frames = VAD_NOISE_SAMPLES + 1
    /\ vad_caller = "command"
    /\ vad_result = "voice"
    /\ noise_floor = 14
    /\ vad_energy_total = 730

\* C16: after the warm-up a frame is reported as voice if and only if
\* avg_energy > noise_floor + base_margin, or max_amplitude is above half of
\* noise_floor + base_margin and above 1.1 times avg_energy
C16_VoiceDecision ==
    (vad_frames > VAD_NOISE_SAMPLES /\ vad_result \in {"voice", "silence"}) =>
        (vad_result = "voice" <=>
            \/ avg_energy > noise_floor + VAD_BASE_THRESHOLD
            \/ /\ 2 * max_amplitude > noise_floor + VAD_BASE_THRESHOLD
               /\ 10 * max_amplitude > 11 * avg_energy)

\* 50 silent frames, then a frame of average energy 700, reported as voice
C16_Witness ==
    /\ vad_frames > VAD_NOISE_SAMPLES
    /\ noise_floor = 0
    /\ vad_energy_total = 0
    /\ avg_energy = 700
    /\ VAD_BASE_THRESHOLD = 600
    /\ vad_result = "voice"

\* a frame was reported as voice by its peak alone
C16_WitnessPeak ==
    /\ vad_frames > VAD_NOISE_SAMPLES
    /\ vad_result = "voice"
    /\ avg_energy <= noise_floor + VAD_BASE_THRESHOLD

\* C17: a frame of no sample is reported as no voice and raises no fault
C17_EmptyFrameIsNoVoice ==
    (vad_samples = 0 /\ vad_result # "none") => vad_result = "silence"

\* C18: a call in Listening whose pattern evaluation matches moves the
\* detector to Detecting and records detection_start; a call in Detecting
\* with no match returns it to Listening when made more than 1 s after
\* detection_start and leaves it in Detecting otherwise; no call moves
\* Listening directly to Confirmed
C18_DetectorProgression ==
    [][KwProcess =>
          /\ (kw_state = "LISTENING" /\ kw_matched' = "yes") =>
                (kw_state' = "DETECTING" /\ ~verify_expired')
          /\ (kw_state = "DETECTING" /\ kw_matched' = "no") =>
                kw_state' = IF verify_expired THEN "LISTENING" ELSE "DETECTING"
          /\ kw_state = "LISTENING" => kw_state' # "CONFIRMED"
      ]_vars

\* a call made more than 1 s after detection_start found no match and
\* returned the detector to Listening
C18_Witness ==
    /\ kw_state = "LISTENING"
    /\ verify_expired
    /\ kw_matched = "no"
    /\ kw_return = "false"

\* C19: the detector goes from Detecting to Confirmed only on a match
\* evaluated within 1 s of detection_start
C19_ConfirmOnlyWithinWindow ==
    [][(kw_state = "DETECTING" /\ kw_state' = "CONFIRMED") =>
          (kw_matched' = "yes" /\ ~verify_expired)]_vars

\* C20: process_keyword_detection returns true exactly on the call that
\* enters Confirmed; a call made in Confirmed leaves the state Confirmed and
\* returns false; reset puts the detector in Listening with
\* samples_collected, buffer_pos and confidence 0 and keyword_detected false
C20_ConfirmedUntilReset ==
    [][/\ KwProcess =>
             (kw_return' = "true" <=>
                 (kw_state # "CONFIRMED" /\ kw_state' = "CONFIRMED"))
       /\ (KwProcess /\ kw_state = "CONFIRMED") =>
             (kw_state' = "CONFIRMED" /\ kw_return' = "false")
       /\ KwReset =>
             /\ kw_state' = "LISTENING"
             /\ samples_collected' = 0
             /\ buffer_pos' = 0
             /\ confidence' = 0
             /\ keyword_detected' = FALSE
      ]_vars

\* a call was made after the keyword was confirmed and before a reset
C20_Witness ==
    /\ kw_state = "CONFIRMED"
    /\ keyword_detected
    /\ kw_matched = "none"
    /\ kw_return = "false"

\* a reset was made after the keyword was confirmed
C20_WitnessReset ==
    /\ kw_state = "LISTENING"
    /\ kw_return = "none"
    /\ samples_collected = 0
    /\ verify_expired

\* C21: after any sequence of addSamples and reset calls the write position
\* is inside the buffer and equals the number of samples added since the
\* last reset modulo the capacity, samples_collected is that number capped
\* at the capacity, and the buffer holds the samples_collected most recently
\* written samples, so a write into a full buffer replaces the oldest one
C21_CircularBufferInvariant ==
    /\ 0 <= buffer_pos
    /\ buffer_pos < KEYWORD_BUFFER_SIZE
    /\ samples_collected <= KEYWORD_BUFFER_SIZE
    /\ samples_collected = Min(kw_added, KEYWORD_BUFFER_SIZE)
    /\ buffer_pos = kw_added % KEYWORD_BUFFER_SIZE
    /\ \A k \in 1..(samples_collected \div KW_CELL) :
           audio_buffer[((buffer_pos \div KW_CELL) + KwCells - k) % KwCells]
               = kw_written - k + 1

\* the buffer has wrapped after a reset
C21_Witness ==
    /\ kw_added > KEYWORD_BUFFER_SIZE
    /\ buffer_pos # 0

\* samples are added after a reset into a buffer that was full
C21_WitnessReset ==
    /\ kw_resets > 0
    /\ kw_added > 0
    /\ (KwCells - 1) \in DOMAIN audio_buffer

\* the latest call of process_keyword_detection evaluated the pattern on a
\* buffer long enough to be analysed
WindowRead == kw_matched # "none" /\ EnoughSamples(samples_collected)

\* C22: the window pattern evaluation reads is the K = min(1 s of samples,
\* samples_collected) most recently written samples, in the order they were
\* written, and it starts at index (write_pos + capacity - K) mod capacity
C22_WindowIsMostRecent ==
    WindowRead =>
        LET K == Min(SAMPLE_RATE, samples_collected)
            n == K \div KW_CELL
            start == (buffer_pos + KEYWORD_BUFFER_SIZE - K)
                         % KEYWORD_BUFFER_SIZE
        IN  /\ Len(analysis_buffer) = n
            /\ \A i \in 1..n : analysis_buffer[i] = kw_written - n + i
            /\ analysis_buffer[1] = audio_buffer[start \div KW_CELL]

\* a window that wraps around the end of the buffer has been read
C22_Witness ==
    /\ WindowRead
    /\ kw_added > KEYWORD_BUFFER_SIZE
    /\ 0 < buffer_pos
    /\ buffer_pos < SAMPLE_RATE
    /\ Len(analysis_buffer) = SAMPLE_RATE \div KW_CELL

\* a window shorter than 1 s has been read
C22_WitnessShort ==
    /\ WindowRead
    /\ samples_collected < SAMPLE_RATE
    /\ kw_resets > 0

\* TypeOK of the uplink streamer's variables
UpTypeOK ==
    /\ up_pc \in {"loop", "returned"}
    /\ recording_started \in BOOLEAN
    /\ is_first_chunk \in BOOLEAN
    /\ stream_buffer_pos = Len(stream_buffer) * UP_CELL
    /\ stream_buffer_pos < STREAM_CHUNK_SIZE
    /\ consecutive_voice_count \in 0..MaxUpFrames

RECURSIVE TrailingVoiced(_)
\* the number of voice-positive frames at the end of a sequence of verdicts
TrailingVoiced(v) ==
    IF v = <<>> \/ ~v[Len(v)] THEN 0
    ELSE 1 + TrailingVoiced(SubSeq(v, 1, Len(v) - 1))

\* the blocks of the bodies of a sequence of calls, in call order
RECURSIVE Bodies(_)
Bodies(calls) ==
    IF calls = <<>> THEN <<>> ELSE Head(calls).body \o Bodies(Tail(calls))

\* C23: recording starts only on the second of two consecutive frames with
\* voice; until then a frame without voice sets the consecutive count back
\* to zero, and nothing is buffered or sent; what is buffered or sent later
\* comes from no frame before the one on which recording started
C23_Debounce ==
    /\ ~recording_started =>
          /\ up_start = 0
          /\ consecutive_voice_count = TrailingVoiced(up_frames)
          /\ consecutive_voice_count < 2
          /\ stream_buffer = <<>>
          /\ stream_buffer_pos = 0
          /\ up_calls = <<>>
    /\ recording_started =>
          /\ up_start >= 2
          /\ up_frames[up_start]
          /\ up_frames[up_start - 1]
          /\ \A j \in 1..Len(stream_buffer) : stream_buffer[j][1] >= up_start
          /\ \A j \in 1..Len(Bodies(up_calls)) :
                Bodies(up_calls)[j][1] >= up_start

\* recording has started after a first voiced frame was followed by a frame
\* without voice, and a chunk has been sent
C23_Witness ==
    /\ recording_started
    /\ up_start > 2
    /\ up_frames[1]
    /\ ~up_frames[2]
    /\ up_calls # <<>>

\* the calls of a sequence that carry is_last_chunk = true
LastMarked(calls) == {j \in 1..Len(calls) : calls[j].is_last_chunk}

\* C24: a capture cycle in which recording started and which the silence
\* timeout or the maximum recording duration ended has made exactly one call
\* with is_last_chunk = true, and that call is its last call
C24_EndMarker ==
    (/\ up_pc = "returned"
     /\ recording_started
     /\ up_exit \in {"silence", "duration"}) =>
        LastMarked(up_calls) = {Len(up_calls)} /\ up_calls # <<>>

\* the calls of a sequence that carry is_first_chunk = true
FirstMarked(calls) == {j \in 1..Len(calls) : calls[j].is_first_chunk}

C25_FirstCallIsFullChunk ==
    up_calls # <<>> =>
        /\ ~up_calls[1].is_last_chunk
        /\ Len(up_calls[1].body) * UP_CELL = STREAM_CHUNK_SIZE

\* no frame read after the one on which recording started had voice; when
\* recording never started, no frame of the cycle had voice
NoVoiceAfterStart ==
    \A j \in (up_start + 1)..Len(up_frames) : ~up_frames[j]

\* the cycle has made one call only, an empty end marker
LoneEndMarker ==
    /\ Len(up_calls) = 1
    /\ up_calls[1].is_last_chunk
    /\ up_calls[1].body = <<>>

\* C26: a capture cycle that has ended and in which no frame was voiced
\* after the start has made exactly one call, with is_last_chunk = true and
\* an empty body
C26_NothingCapturedEndMarker ==
    (up_pc = "returned" /\ NoVoiceAfterStart) => LoneEndMarker

\* no cycle ever makes an empty end marker its only call
C26_NeverLoneEndMarker == ~LoneEndMarker

\* a cycle in which recording never starts does not end unless a read fails
C26_NoExitBeforeRecording ==
    (up_pc = "returned" /\ ~recording_started) => up_exit = "read_error"

\* C27: once a chunk send has failed, the cycle has returned and has sent no
\* audio chunk after the failed one
C27_TransportFailureEnds ==
    up_failed > 0 =>
        /\ up_pc = "returned"
        /\ \A j \in (up_failed + 1)..Len(up_calls) : up_calls[j].body = <<>>

\* a failed chunk send is never followed by more audio: the part of the
\* property about further chunks alone
C27_NoAudioAfterFailure ==
    up_failed > 0 =>
        \A j \in (up_failed + 1)..Len(up_calls) : up_calls[j].body = <<>>

\* the bytes of the frames numbered from..to, in capture order
RECURSIVE CapturedBytes(_, _)
CapturedBytes(from, to) ==
    IF from > to THEN <<>>
    ELSE FrameBytes(from) \o CapturedBytes(from + 1, to)

C28_WitnessDuration ==
    /\ up_pc = "returned"
    /\ up_exit = "duration"
    /\ Len(up_calls) >= 2
    /\ stream_buffer = <<>>

\* C29: whenever the playback task goes to its exit (task_cleanup), by
\* whatever way, playback_state is Complete
C29_EveryExitLeavesComplete ==
    [][(pcT # "t_cleanup" /\ pcT' = "t_cleanup")
          => playback_state' = "COMPLETE"]_vars

\* the part of the property that holds: an exit by an oversize chunk in
\* pre-buffering, a pre-buffer failure or through playback_done
C29_ExitsThatSetComplete ==
    [][(pcT \in {"pre_recv", "pre_exit", "play_done"} /\ pcT' = "t_cleanup")
          => playback_state' = "COMPLETE"]_vars

\* a step of the handler of audio_start, which opens a playback session
AudioStartStep == pcL = "ws" /\ pcL' = "as_check"

\* C30: once the playback state is Draining, no step of the session (any
\* step but the audio_start that opens another one) takes it back to
\* Receiving or Playing: the next playback state is not one of these two
C30_DrainingNeverGoesBack ==
    [][(playback_state = "DRAINING" /\ ~AudioStartStep)
          => playback_state' \notin {"RECEIVING", "PLAYING"}]_vars

\* the audio_complete handler alone never leaves Draining for an earlier
\* state: only the playback task's write of Playing does
C30_OnlyTheTaskGoesBack ==
    [][(playback_state = "DRAINING" /\ ~AudioStartStep
            /\ playback_state' \in {"RECEIVING", "PLAYING"})
          => (pcT = "pre_exit" /\ playback_state' = "PLAYING")]_vars

\* ring buffers created and not deleted
AllocatedRingbufs == {r \in 1..rbCreated : rbDeleted[r] = 0}

\* C31: whenever create_audio_playback_task creates a ring buffer, every
\* ring buffer created earlier has been deleted, and whenever the playback
\* state is Idle with no playback task alive no ring buffer is allocated
C31_QueueAlwaysReleased ==
    [][/\ rbCreated' = rbCreated + 1 => AllocatedRingbufs = {}
       /\ (playback_state' = "IDLE" /\ ~TaskAlive') =>
              (AllocatedRingbufs' = {} /\ audio_ring_buffer' = NULL)
      ]_vars

\* the part of the property that holds: no ring buffer is deleted twice,
\* and the ring buffer the shared pointer names is an allocated one
C31_NoDoubleRelease ==
    /\ \A r \in 1..rbCreated : rbDeleted[r] <= 1
    /\ audio_ring_buffer # NULL => audio_ring_buffer \in AllocatedRingbufs

\* a step of the playback task that leaves the position pc
TaskLeaves(pc) == pcT = pc /\ pcT' \notin {pc, "killed"}

\* C32: a fetch of the playback loop that finds the queue empty ends the
\* loop when the state is Draining, and when it is not, ends it if more than
\* CHUNK_TIMEOUT has passed since the last chunk and goes on polling if not;
\* a loop that has ended sets Complete once the speaker has finished
C32_StalledStreamEnds ==
    [][/\ (TaskLeaves("play_none") /\ playback_state = "DRAINING") =>
              pcT' = "play_done"
       /\ (TaskLeaves("play_none") /\ playback_state # "DRAINING") =>
              /\ chunk_timed_out' \in {"true", "false"}
              /\ chunk_timed_out' = "true" => pcT' = "play_done"
              /\ chunk_timed_out' = "false" => pcT' = "play_top"
       /\ TaskLeaves("play_done") =>
              (sinkQ = <<>> /\ playback_state' = "COMPLETE")
      ]_vars

\* the stream stalled while Playing: the loop has ended on the chunk timeout
\* and the engine has reached Complete
C32_Witness ==
    /\ chunk_timed_out = "true"
    /\ pcT = "t_cleanup"
    /\ playback_state = "COMPLETE"
    /\ taken >= PREBUFFER_CHUNKS

\* the loop has ended on an empty queue while Draining
C32_WitnessDraining ==
    /\ pcT = "play_done"
    /\ playback_state = "DRAINING"
    /\ chunk_timed_out = "none"
    /\ lastPoll = -1
    /\ rbQueue = <<>>

\* ids of the chunks of the session that exceed a play buffer
OversizeIds ==
    {accepted[k].id : k \in {j \in 1..Len(accepted) :
                                accepted[j].size > PLAYBACK_BUFFER_SIZE}}

\* C33: a chunk taken from the queue that is larger than a play buffer is
\* returned to the queue without being copied into a play buffer or passed
\* to the sink, and the stream is aborted: in pre-buffering the state is
\* set to Complete and the task goes to its exit, in the playback loop the
\* loop ends and the task's next step sets Complete
C33_OversizeChunkAborts ==
    [][/\ (taken' = taken + 1 /\ Head(rbQueue).size > PLAYBACK_BUFFER_SIZE) =>
              /\ rbQueue' = Tail(rbQueue)
              /\ UNCHANGED <<play_buffers, played, sinkQ>>
              /\ IF pcT = "pre_recv"
                 THEN playback_state' = "COMPLETE" /\ pcT' = "t_cleanup"
                 ELSE pcT' = "play_done"
       /\ (pcT = "play_done" /\ pcT' \notin {"play_done", "killed"}) =>
              (pcT' = "t_cleanup" /\ playback_state' = "COMPLETE")
       /\ \A id \in OversizeIds' :
              /\ \A k \in 1..Len(played') : played'[k] # id
              /\ \A i \in 0..(BUFFER_COUNT - 1) : play_buffers'[i] # id
      ]_vars

\* an oversize chunk was taken by the playback loop after two chunks were
\* played, and the engine has reached Complete
C33_Witness ==
    /\ Len(accepted) = 3
    /\ accepted[3].size > PLAYBACK_BUFFER_SIZE
    /\ taken = 3
    /\ Len(played) = PREBUFFER_CHUNKS
    /\ playback_state = "COMPLETE"
    /\ pcT = "t_cleanup"

\* an oversize chunk was taken in pre-buffering
C33_WitnessPrebuffer ==
    /\ Len(accepted) >= 1
    /\ accepted[1].size > PLAYBACK_BUFFER_SIZE
    /\ taken = 1
    /\ played = <<>>
    /\ playback_state = "COMPLETE"
    /\ pcT = "t_cleanup"

\* C34: an audio_start handled while the playback task handle is non-null
\* creates no task and no ring buffer, and leaves the task, its queue and
\* the playback state as they were
C34_SecondStartChangesNothing ==
    [][(AudioStartStep /\ audio_playback_task_handle # NULL) =>
          /\ UNCHANGED <<taskVars, rbVars, audio_ring_buffer,
                         audio_playback_task_handle,
                         audio_playback_task_running>>
          /\ playback_state' = playback_state
      ]_vars

\* the part of the property that holds: no second task and no second ring
\* buffer are created, and the running task and its queue are untouched
C34_NoSecondTaskOrQueue ==
    [][(AudioStartStep /\ audio_playback_task_handle # NULL) =>
          UNCHANGED <<taskVars, rbVars, audio_ring_buffer,
                      audio_playback_task_handle,
                      audio_playback_task_running>>
      ]_vars

\* C35: destroy_audio_playback_task never calls vTaskDelete with a null
\* handle and never with the handle of a task that has already deleted
\* itself
C35_ForceDeleteIsValid == fault = "none"

\* the part of the property that holds: a force delete is invalid only when
\* the playback task has cleared its handle after the test that precedes the
\* force delete
C35_InvalidOnlyAfterTaskCleanup ==
    [][fault' # fault =>
          /\ pcL = "d_kill"
          /\ audio_playback_task_handle = NULL
          /\ pcT \in {"t_exit", "exited"}
      ]_vars

\* the control loop is between two of its steps: no handler is suspended
\* inside destroy_audio_playback_task or between two statements
BetweenLoopSteps ==
    pcL \in {"ws", "check", "touch", "ptimeout", "rtimeout", "rec"}

\* C36: between control-loop steps is_recording is true if and only if the
\* session state is Listening
C36_RecordingIffListening ==
    BetweenLoopSteps => (is_recording <=> current_state = "LISTENING")

\* the part of the property that holds: the session is Listening only while
\* is_recording is true
C36_ListeningImpliesRecording ==
    current_state = "LISTENING" => is_recording

\* C37: whenever the session state is Ready, websocket_connected is true
C37_ReadyImpliesConnected ==
    current_state = "READY" => websocket_connected

\* the part of the property that holds: the handlers of the transport events
\* themselves never leave the session Ready with the transport disconnected
C37_TransportEventsKeepIt ==
    [][(WsConnected \/ WsError \/ WsDisconnectedTail) =>
          (current_state' = "READY" => websocket_connected')]_vars

\* C38: audio_buffer_pos never exceeds AUDIO_CHUNK_SIZE, and while recording
\* the read loop() makes next ends inside the buffer: the samples it writes
\* are at audio_buffer_pos .. audio_buffer_pos + samples_to_read - 1, all
\* below AUDIO_CHUNK_SIZE
C38_RecordingBufferBound ==
    /\ audio_buffer_pos <= AUDIO_CHUNK_SIZE
    /\ is_recording =>
           audio_buffer_pos + SamplesToRead(audio_buffer_pos)
               <= AUDIO_CHUNK_SIZE

\* the recording has reached the last position from which a read is made:
\* the next read takes it past the safety limit
C38_Witness ==
    /\ is_recording
    /\ audio_buffer_pos + BUFFER_SIZE >= AUDIO_CHUNK_SIZE - SAFETY_MARGIN
    /\ pcL = "rec"

\* C39: a pattern evaluation on at least KEYWORD_MIN_LENGTH_MS of buffered
\* audio finds both buffer-fill conditions (10 % and 5 % of the buffer) true
\* and reports a detection exactly when the fallback predicate holds (at
\* least 1 active segment and an average energy above the fallback floor),
\* whatever the energy variation; on less audio it reports no detection
C39_DetectionIsFallback ==
    kw_matched # "none" =>
        IF EnoughSamples(samples_collected)
        THEN /\ 10 * samples_collected >= KEYWORD_BUFFER_SIZE
             /\ 20 * samples_collected >= KEYWORD_BUFFER_SIZE
             /\ kw_matched = "yes" <=>
                    (active_segments >= 1 /\ confidence > FALLBACK_ENERGY_FLOOR)
        ELSE kw_matched = "no"

\* a detection was reported that the full criteria do not explain: one
\* active segment and an energy between the two floors
C39_Witness ==
    /\ kw_matched = "yes"
    /\ active_segments = 1
    /\ confidence > FALLBACK_ENERGY_FLOOR
    /\ confidence <= FULL_ENERGY_FLOOR

\* a call evaluated the pattern on less than the minimum length
C39_WitnessShort ==
    /\ kw_matched = "no"
    /\ samples_collected > 0
    /\ ~EnoughSamples(samples_collected)

\* play buffers the speaker channel holds
SinkHolds == {sinkQ[k] : k \in 1..Len(sinkQ)}

\* C40: with a speaker channel of two slots that reports room only when its
\* queued slot is free, no chunk taken from the queue is copied into a play
\* buffer the channel still holds
C40_NoCopyIntoHeldBuffer ==
    [][taken' = taken + 1 =>
          \A i \in 0..(BUFFER_COUNT - 1) :
              play_buffers'[i] # play_buffers[i] => i \notin SinkHolds
      ]_vars

\* a play buffer is used for the second time: the fourth chunk was copied
\* into buffer 0 while the channel was playing buffer 2
C40_Witness ==
    /\ taken = BUFFER_COUNT + 1
    /\ Len(played) = BUFFER_COUNT + 1
    /\ play_buffers[0] = played[BUFFER_COUNT + 1]
    /\ sinkQ = <<2, 0>>

====
